---- MODULE Spec2Model ----
(***************************************************************************)
(* State model of pandora_cas: the CurrentState merge engine               *)
(* (data.py), the device session (device.py: update_current_state, the     *)
(* state setter, async_remote_command and the control future) and the      *)
(* WebSocket command-result handler of the account (account.py).           *)
(*                                                                         *)
(* Python values that may be None are modelled as sequences of length 0    *)
(* or 1: None is <<>>, the value v is <<v>>.  A dict is a function whose   *)
(* DOMAIN is the set of its keys.                                          *)
(***************************************************************************)
EXTENDS Integers, Sequences, FiniteSets, TLC

VARIABLES
    current_state,        \* PandoraOnlineDevice._current_state
    utc_offset,           \* PandoraOnlineDevice._utc_offset
    account_utc_offset,   \* PandoraOnlineAccount._utc_offset
    control_future,       \* PandoraOnlineDevice._control_future (the task that made it)
    fut,                  \* state of the asyncio.Future last created by each task
    tasks,                \* position of each caller of async_remote_command
    last,                 \* history: the most recent completed call and its result
    accepted,             \* history: greatest freshness timestamp each governed
                          \* attribute was accepted with
    last_point,           \* PandoraOnlineDevice._last_point
    last_event,           \* PandoraOnlineDevice._last_event
    attributes,           \* PandoraOnlineDevice._attributes
    features,             \* PandoraOnlineDevice._features
    peer_state,           \* _current_state of a second device of the account
    auth,                 \* PandoraOnlineAccount.access_token and the position of
                          \* the caller of async_authenticate
    ws,                   \* _iterate_websockets: the connection, the local
                          \* "contents", and the frames received and messages
                          \* yielded on the connection (history)
    listener,             \* async_listen_websockets / async_listen_for_updates:
                          \* position, arguments and outcome
    devices               \* PandoraOnlineAccount._devices

vars == <<current_state, utc_offset, account_utc_offset, control_future, fut,
          tasks, last, accepted,
                   last_point, last_event, attributes, features, peer_state, auth,
                   ws, listener, devices>>

-----------------------------------------------------------------------------
(* Bounds of the model *)

\* UTC timestamps of the update batches range over 1..MaxTime
MaxTime == 3
\* governed attribute values (speed) range over 1..MaxSpeed
MaxSpeed == 2
\* command timestamps of the session's update batches range over 1..MaxCommandTime
MaxCommandTime == 2
\* a state is merged into while its lock_latitude has been through the converter
\* fewer than MaxLockDivisions times
MaxLockDivisions == 3

\* a listener opens at most MaxConnections connections
MaxConnections == 3

\* at most MaxFrames frames are received on one connection
MaxFrames == 3

\* the access tokens are "" (written 0) and the tokens 1..MaxToken
MaxToken == 2

-----------------------------------------------------------------------------
(* Python helpers *)

None == <<>>
Some(x) == <<x>>
Val(o) == o[1]

\* dict.get(key): None when the key is absent
Get(d, k) == IF k \in DOMAIN d THEN d[k] ELSE None

EmptyDict == [k \in {} |-> None]

\* d[k] = v on a dict
Put(d, k, v) == [x \in DOMAIN d \cup {k} |-> IF x = k THEN v ELSE d[x]]

\* dict.pop(key, None): the dict without the key
Pop(d, k) == [x \in DOMAIN d \ {k} |-> d[x]]

Abs(n) == IF n < 0 THEN -n ELSE n

\* Python 3 round(n / d) for integers n and d > 0: the nearest integer, a tie
\* going to the even one
PyRoundDiv(n, d) ==
    LET q == n \div d      \* floor
        r == n % d         \* 0 <= r < d
    IN  IF 2 * r < d THEN q
        ELSE IF 2 * r > d THEN q + 1
        ELSE IF q % 2 = 0 THEN q ELSE q + 1

-----------------------------------------------------------------------------
(* data.py: the CurrentState schema *)

DEFAULT_TIMESTAMP_SOURCE == "state_timestamp_utc"

\* metadata[_A] of each modelled attribute of CurrentState: the attribute whose
\* value is the freshness timestamp of this one, None for an attribute declared
\* with timestamp_source None
timestamp_source ==
    [ fuel                   |-> Some(DEFAULT_TIMESTAMP_SOURCE),
      latitude               |-> Some(DEFAULT_TIMESTAMP_SOURCE),
      lock_latitude          |-> Some(DEFAULT_TIMESTAMP_SOURCE),
      longitude              |-> Some(DEFAULT_TIMESTAMP_SOURCE),
      speed                  |-> Some(DEFAULT_TIMESTAMP_SOURCE),
      state_timestamp        |-> None,
      state_timestamp_utc    |-> None,
      online_timestamp       |-> None,
      online_timestamp_utc   |-> None,
      settings_timestamp_utc |-> None,
      command_timestamp_utc  |-> None,
      is_online              |-> None ]

AttrNames == DOMAIN timestamp_source

\* the attributes __attrs_post_init__ and evolve_args treat as freshness-governed
Governed == {a \in AttrNames : timestamp_source[a] # None}

\* the init names of the class: every attribute and the alias of _last_updated
InitNames == AttrNames \cup {"last_updated"}

\* field_int / field_float converter on the integers of this model:
\* None stays the default None, a number is kept
field_opt_conv(x) == IF x = None THEN None ELSE Some(Val(x))

\* A float that lock_lat_lng_conv has produced is modelled exactly, as the
\* record [m, e] standing for m / 1000000^e; the number x the server sent is
\* [m |-> x, e |-> 0].
\* lock_lat_lng_conv(x) = float(x) / 1000000
lock_lat_lng_conv(x) == [m |-> x.m, e |-> x.e + 1]

\* the converter attrs runs on the init argument of an attribute: field_opt
\* keeps None as the default None and hands anything else to the converter of
\* the field, lock_lat_lng_conv for lock_latitude, int or float for the others
field_conv(a, x) ==
    IF x = None THEN None
    ELSE IF a = "lock_latitude" THEN Some(lock_lat_lng_conv(Val(x)))
    ELSE IF a = "is_online" THEN Some(IF Val(x) # 0 THEN 1 ELSE 0)
    ELSE field_opt_conv(x)

\* CurrentState.__attrs_post_init__: the ledger is rebuilt from the object's own
\* timestamp attribute on every construction; "or -1" maps None and 0 to -1
attrs_post_init(attrs) ==
    [a \in Governed |->
        LET ts == attrs[Val(timestamp_source[a])]
        IN  IF ts = None \/ Val(ts) = 0 THEN -1 ELSE Val(ts)]

\* CurrentState(**kwargs), kwargs within InitNames: converters, defaults, then
\* __attrs_post_init__ (which overwrites the last_updated that was passed)
CurrentState(kwargs) ==
    LET attrs == [a \in AttrNames |->
                    IF a \in DOMAIN kwargs THEN field_conv(a, kwargs[a]) ELSE None]
    IN  [attrs |-> attrs, last_updated |-> attrs_post_init(attrs)]

\* the timestamp_source of an init name ("last_updated" carries no metadata)
SourceOf(a) == IF a \in AttrNames THEN timestamp_source[a] ELSE None

\* an evolve_args that drops the whole batch when one attribute is stale
evolve_args_all_or_nothing(self, changes) ==
    LET tsval(a)    == Get(changes, Val(SourceOf(a)))
        skipped     == {a \in DOMAIN changes \cap InitNames :
                          /\ SourceOf(a) # None
                          /\ tsval(a) # None
                          /\ self.last_updated[a] > Val(tsval(a))}
        applied     == IF skipped = {} THEN DOMAIN changes ELSE {}
        new_updates == {a \in applied \cap InitNames :
                          SourceOf(a) # None /\ tsval(a) # None}
        ledger      == [a \in Governed |->
                          IF a \in new_updates THEN Val(tsval(a))
                          ELSE self.last_updated[a]]
        init_args   == [a \in applied |-> changes[a]]
    IN  IF DOMAIN changes \ InitNames # {}
        THEN [raised |-> "ValueError", args |-> EmptyDict]
        ELSE [raised |-> "",
              args   |-> IF applied = {} THEN EmptyDict
                         ELSE Put(init_args, "last_updated", Some(ledger))]

\* an evolve_args that holds a governed attribute without a timestamp against
\* the ledger as if its timestamp were the oldest
evolve_args_requires_timestamp(self, changes) ==
    LET tsval(a)    == Get(changes, Val(SourceOf(a)))
        skipped     == {a \in DOMAIN changes \cap InitNames :
                          /\ SourceOf(a) # None
                          /\ \/ /\ tsval(a) = None
                                /\ self.last_updated[a] > -1
                             \/ /\ tsval(a) # None
                                /\ self.last_updated[a] > Val(tsval(a))}
        applied     == DOMAIN changes \ skipped
        new_updates == {a \in applied \cap InitNames :
                          SourceOf(a) # None /\ tsval(a) # None}
        ledger      == [a \in Governed |->
                          IF a \in new_updates THEN Val(tsval(a))
                          ELSE self.last_updated[a]]
        init_args   == [a \in applied |-> changes[a]]
    IN  IF DOMAIN changes \ InitNames # {}
        THEN [raised |-> "ValueError", args |-> EmptyDict]
        ELSE [raised |-> "",
              args   |-> IF applied = {} THEN EmptyDict
                         ELSE Put(init_args, "last_updated", Some(ledger))]

\* CurrentState.evolve_args: [raised, args]
evolve_args(self, changes) ==
    LET tsval(a)    == Get(changes, Val(SourceOf(a)))
        skipped     == {a \in DOMAIN changes \cap InitNames :
                          /\ SourceOf(a) # None
                          /\ tsval(a) # None
                          /\ self.last_updated[a] > Val(tsval(a))}
        applied     == DOMAIN changes \ skipped
        new_updates == {a \in applied \cap InitNames :
                          SourceOf(a) # None /\ tsval(a) # None}
        ledger      == [a \in Governed |->
                          IF a \in new_updates THEN Val(tsval(a))
                          ELSE self.last_updated[a]]
        init_args   == [a \in applied |-> changes[a]]
    IN  IF DOMAIN changes \ InitNames # {}
        THEN [raised |-> "ValueError", args |-> EmptyDict]
        ELSE [raised |-> "",
              args   |-> IF applied = {} THEN EmptyDict
                         ELSE Put(init_args, "last_updated", Some(ledger))]

\* attr.evolve(self, **changes): every init argument not in changes is taken
\* from self, then the class is constructed
attr_evolve(self, changes) ==
    CurrentState([a \in InitNames |->
        IF a \in DOMAIN changes THEN changes[a]
        ELSE IF a = "last_updated" THEN Some(self.last_updated)
        ELSE self.attrs[a]])

\* CurrentState.evolve(False, silence, **changes); it is only called with the
\* result of evolve_args, which holds no unknown attribute
evolve(self, changes) ==
    LET ea == evolve_args(self, changes)
    IN  IF DOMAIN ea.args # {} THEN attr_evolve(self, ea.args) ELSE self

-----------------------------------------------------------------------------
(* data.py, account.py: raw values of the server's JSON and their conversion *)

\* A raw JSON value is a record [t, n]: null, the integer n, the string that
\* is the decimal numeral of n, the empty string, a string that is no numeral,
\* or a list of n integers.
JNull == [t |-> "null", n |-> 0]
JInt(n) == [t |-> "int", n |-> n]
JNumeral(n) == [t |-> "numeral", n |-> n]
JEmpty == [t |-> "empty", n |-> 0]
JWord == [t |-> "word", n |-> 0]
JList(n) == [t |-> "list", n |-> n]

\* bool(x) of a raw value
Truthy(x) ==
    CASE x.t = "null"    -> FALSE
      [] x.t = "int"     -> x.n # 0
      [] x.t = "numeral" -> TRUE
      [] x.t = "empty"   -> FALSE
      [] x.t = "word"    -> TRUE
      [] x.t = "list"    -> x.n > 0

\* int(x) of a raw value (float(x) alike): [raised, value]
py_int(x) ==
    CASE x.t \in {"null", "list"}  -> [raised |-> "TypeError", value |-> 0]
      [] x.t \in {"empty", "word"} -> [raised |-> "ValueError", value |-> 0]
      [] OTHER                     -> [raised |-> "", value |-> x.n]

\* PandoraOnlineAccount.parse_device_id(data): [raised, ret]
parse_device_id(data) ==
    IF "dev_id" \notin DOMAIN data /\ "id" \notin DOMAIN data
    THEN [raised |-> "KeyError", ret |-> None]
    ELSE LET device_id == IF "dev_id" \in DOMAIN data THEN data.dev_id ELSE data.id
         IN  IF ~Truthy(device_id)
             THEN [raised |-> "ValueError", ret |-> None]
             ELSE IF py_int(device_id).raised # ""
             THEN [raised |-> py_int(device_id).raised, ret |-> None]
             ELSE [raised |-> "", ret |-> Some(py_int(device_id).value)]

\* int_or_none(x) and float_or_none(x): None for None and for what int() does
\* not convert
int_or_none(x) ==
    IF x.t = "null" \/ py_int(x).raised # "" THEN None ELSE Some(py_int(x).value)

\* the value and the exception of each converter of the modelled attributes of
\* CurrentState on the raw value x of its source key: [raised, value]
\* identifier: int
identifier_conv(x) ==
    [raised |-> py_int(x).raised, value |-> Some(py_int(x).value)]

\* engine_rpm: field_int, "default if x is None else int_or_none(x)"
engine_rpm_conv(x) == [raised |-> "", value |-> int_or_none(x)]

\* bit_state: field_opt with lambda x: BitStatus(int(x))
bit_state_conv(x) ==
    IF x.t = "null" THEN [raised |-> "", value |-> None]
    ELSE [raised |-> py_int(x).raised, value |-> Some(py_int(x).value)]

\* lock_latitude: field_opt with lock_lat_lng_conv, float(x) / 1000000
lock_latitude_conv(x) ==
    IF x.t = "null" THEN [raised |-> "", value |-> None]
    ELSE [raised |-> py_int(x).raised,
          value |-> Some([m |-> py_int(x).value, e |-> 1])]

\* heater_errors: field_list with int, "tuple(map(converter, x))"; the list of n
\* integers converts to the tuple of them
heater_errors_conv(x) ==
    IF x.t = "list" THEN [raised |-> "", value |-> [i \in 1..x.n |-> i]]
    ELSE \* map() over None or a number: not iterable; over a string: int() of
         \* its characters
         [raised |-> IF x.t \in {"null", "int"} THEN "TypeError" ELSE "ValueError",
          value |-> <<>>]

\* the source key, the converter result and the default of each modelled
\* attribute for the raw dictionary data; identifier has no default
Converted(data) ==
    [ identifier    |-> IF "dev_id" \in DOMAIN data THEN identifier_conv(data.dev_id)
                        ELSE IF "id" \in DOMAIN data THEN identifier_conv(data.id)
                        ELSE [raised |-> "TypeError", value |-> None],
      engine_rpm    |-> IF "engine_rpm" \in DOMAIN data THEN engine_rpm_conv(data.engine_rpm)
                        ELSE [raised |-> "", value |-> None],
      bit_state     |-> IF "bit_state_1" \in DOMAIN data THEN bit_state_conv(data.bit_state_1)
                        ELSE [raised |-> "", value |-> None],
      lock_latitude |-> IF "lock_x" \in DOMAIN data THEN lock_latitude_conv(data.lock_x)
                        ELSE [raised |-> "", value |-> None],
      heater_errors |-> IF "heater_errors" \in DOMAIN data
                        THEN heater_errors_conv(data.heater_errors)
                        ELSE [raised |-> "", value |-> <<>>] ]

\* CurrentState.from_dict(data): get_dict_args, then the construction, which
\* raises when a converter does or identifier is missing: [raised, ret]
from_dict(data) ==
    LET c      == Converted(data)
        failed == {a \in DOMAIN c : c[a].raised # ""}
    IN  IF failed # {}
        THEN [raised |-> c[CHOOSE a \in failed : TRUE].raised, ret |-> None]
        ELSE [raised |-> "", ret |-> Some([a \in DOMAIN c |-> c[a].value])]

-----------------------------------------------------------------------------
(* device.py: the device session *)

\* PandoraOnlineDevice.utc_offset (getter): the account's offset until the
\* device has one of its own
utc_offset_property(stored, account) ==
    IF stored = None THEN account ELSE Val(stored)

\* the timestamp families update_current_state iterates over, in its order
prefixes == <<"online", "state">>

non_utc_key(prefix) ==
    IF prefix = "online" THEN "online_timestamp" ELSE "state_timestamp"

utc_key(prefix) ==
    IF prefix = "online" THEN "online_timestamp_utc" ELSE "state_timestamp_utc"

\* "not (non_utc_val is None or utc_val is None)"
HasBoth(state_args, prefix) ==
    /\ Get(state_args, non_utc_key(prefix)) # None
    /\ Get(state_args, utc_key(prefix)) # None

\* the families of the batch that carry both halves, in iteration order
FamiliesWithBoth(state_args) ==
    SelectSeq(prefixes, LAMBDA p : HasBoth(state_args, p))

\* a derivation that truncates to the minute below instead of rounding
derive_utc_offset_truncating(non_utc_val, utc_val) ==
    ((non_utc_val - utc_val) \div 60) * 60

\* round((non_utc_val - utc_val) / 60) * 60
derive_utc_offset(non_utc_val, utc_val) ==
    PyRoundDiv(non_utc_val - utc_val, 60) * 60

\* first loop of update_current_state: the offset used for this batch and the
\* stored offset afterwards; the loop breaks at the first family with both halves
extract_utc_offset(state_args, stored, account) ==
    LET both == FamiliesWithBoth(state_args)
        old  == utc_offset_property(stored, account)
    IN  IF both = <<>>
        THEN [offset |-> old, stored |-> stored]
        ELSE LET new == derive_utc_offset(Val(state_args[non_utc_key(Head(both))]),
                                          Val(state_args[utc_key(Head(both))]))
             IN  [offset |-> new,
                  stored |-> IF old # new THEN Some(new) ELSE stored]

\* a second loop that adds the offset in both directions
adjust_family_same_sign(state_args, prefix, offset) ==
    LET u == Get(state_args, utc_key(prefix))
        n == Get(state_args, non_utc_key(prefix))
    IN  IF u # None
        THEN IF n = None
             THEN Put(state_args, non_utc_key(prefix), Some(Val(u) + offset))
             ELSE state_args
        ELSE IF n # None
        THEN Put(state_args, utc_key(prefix), Some(Val(n) + offset))
        ELSE state_args

\* one round of the second loop of update_current_state
adjust_family(state_args, prefix, offset) ==
    LET u == Get(state_args, utc_key(prefix))
        n == Get(state_args, non_utc_key(prefix))
    IN  IF u # None
        THEN IF n = None
             THEN Put(state_args, non_utc_key(prefix), Some(Val(u) + offset))
             ELSE state_args
        ELSE IF n # None
        THEN Put(state_args, utc_key(prefix), Some(Val(n) - offset))
        ELSE state_args

RECURSIVE adjust_timestamps(_, _, _)
adjust_timestamps(state_args, families, offset) ==
    IF families = <<>> THEN state_args
    ELSE adjust_timestamps(adjust_family(state_args, Head(families), offset),
                           Tail(families), offset)

\* a setter that also takes an equal command timestamp for a confirmation
state_setter_not_strict(old_state, value, busy) ==
    IF old_state = None
    THEN [raised |-> "", resolve |-> busy, state |-> Some(value)]
    ELSE IF ~busy
    THEN [raised |-> "", resolve |-> FALSE, state |-> Some(value)]
    ELSE LET o == Val(old_state).attrs["command_timestamp_utc"]
             n == value.attrs["command_timestamp_utc"]
         IN  IF o = None \/ n = None
             THEN [raised |-> "TypeError", resolve |-> FALSE, state |-> old_state]
             ELSE [raised |-> "", resolve |-> Val(o) <= Val(n), state |-> Some(value)]

\* PandoraOnlineDevice.state (setter), given control_busy:
\* [raised, resolve (the control future gets its result and the slot is cleared),
\*  state (the stored state afterwards)]
state_setter(old_state, value, busy) ==
    IF old_state = None
    THEN [raised |-> "", resolve |-> busy, state |-> Some(value)]
    ELSE IF ~busy
    THEN [raised |-> "", resolve |-> FALSE, state |-> Some(value)]
    ELSE LET o == Val(old_state).attrs["command_timestamp_utc"]
             n == value.attrs["command_timestamp_utc"]
         IN  IF o = None \/ n = None
             THEN \* None < int: TypeError, before anything is assigned
                  [raised |-> "TypeError", resolve |-> FALSE, state |-> old_state]
             ELSE [raised |-> "", resolve |-> Val(o) < Val(n), state |-> Some(value)]

\* the tail of update_current_state: "self.state = new_state" and the return
store_state(old_state, new_state, changed, stored, set) ==
    IF set.raised # ""
    THEN [raised |-> set.raised, stored |-> stored, resolve |-> FALSE,
          state |-> old_state, ret |-> None]
    ELSE [raised |-> "", stored |-> stored, resolve |-> set.resolve,
          state |-> set.state,
          ret |-> Some([state |-> new_state, changed |-> changed])]

\* an update that evolves and stores the state also when evolve_args returned
\* nothing to apply
update_existing_always_stores(old_state, stored, busy, ea) ==
    IF ea.raised # ""
    THEN [raised |-> ea.raised, stored |-> stored, resolve |-> FALSE,
          state |-> old_state, ret |-> None]
    ELSE store_state(old_state, attr_evolve(Val(old_state), ea.args),
                     Pop(ea.args, "last_updated"), stored,
                     state_setter(old_state, attr_evolve(Val(old_state), ea.args), busy))

\* update_current_state on a device with a state, given the result ea of
\* evolve_args on the adjusted batch
update_existing(old_state, stored, busy, ea) ==
    IF ea.raised # ""
    THEN [raised |-> ea.raised, stored |-> stored, resolve |-> FALSE,
          state |-> old_state, ret |-> None]
    ELSE IF DOMAIN ea.args # {}
    THEN store_state(old_state, evolve(Val(old_state), ea.args),
                     Pop(ea.args, "last_updated"), stored,
                     state_setter(old_state, evolve(Val(old_state), ea.args), busy))
    ELSE [raised |-> "", stored |-> stored, resolve |-> FALSE,
          state |-> old_state,
          ret |-> Some([state |-> Val(old_state), changed |-> EmptyDict])]

\* an update that reports no changed field for the state it constructs
merge_adjusted_reports_nothing(old_state, stored, busy, adjusted) ==
    IF old_state = None
    THEN IF DOMAIN adjusted \ InitNames # {}
         THEN [raised |-> "TypeError", stored |-> stored, resolve |-> FALSE,
               state |-> old_state, ret |-> None]
         ELSE store_state(old_state, CurrentState(adjusted),
                          EmptyDict, stored,
                          state_setter(old_state, CurrentState(adjusted), busy))
    ELSE update_existing(old_state, stored, busy,
                         evolve_args(Val(old_state), adjusted))

\* update_current_state from "Create new state if not present" on, given the
\* batch after the two timestamp loops
merge_adjusted(old_state, stored, busy, adjusted) ==
    IF old_state = None
    THEN IF DOMAIN adjusted \ InitNames # {}
         THEN \* CurrentState(**state_args): unexpected keyword argument
              [raised |-> "TypeError", stored |-> stored, resolve |-> FALSE,
               state |-> old_state, ret |-> None]
         ELSE store_state(old_state, CurrentState(adjusted),
                          Pop(adjusted, "last_updated"), stored,
                          state_setter(old_state, CurrentState(adjusted), busy))
    ELSE update_existing(old_state, stored, busy,
                         evolve_args(Val(old_state), adjusted))

\* update_current_state after its first loop, given that loop's result ex
reconcile_and_merge(old_state, busy, state_args, ex) ==
    merge_adjusted(old_state, ex.stored, busy,
                   adjust_timestamps(state_args, prefixes, ex.offset))

\* PandoraOnlineDevice.update_current_state(**state_args):
\* [raised, stored (the _utc_offset afterwards), resolve, state (the stored state
\*  afterwards), ret (the returned pair, None when it raised)]
update_current_state(old_state, stored, account, busy, state_args) ==
    reconcile_and_merge(old_state, busy, state_args,
                        extract_utc_offset(state_args, stored, account))

\* a control_busy that negates done() alone: busy once the future is done
control_busy_when_done ==
    control_future # None /\ fut[Val(control_future)] # "pending"

\* a control_busy that does not consult done(): busy while the slot is set
control_busy_while_set == control_future # None

\* PandoraOnlineDevice.device_id of the modelled device
device_id == 1

\* the device_id of the second device of the account
peer_id == 2

\* the evolve_args dict the last_point setter builds from a point: fuel and speed
\* when the point has them, latitude and longitude always
point_evolve_args(value) ==
    LET fuel   == IF value.fuel # None THEN [fuel |-> value.fuel] ELSE EmptyDict
        speed  == IF value.speed # None THEN [speed |-> value.speed] ELSE EmptyDict
    IN  fuel @@ speed @@ [latitude |-> value.latitude, longitude |-> value.longitude]

\* PandoraOnlineDevice.last_point (setter) for a point (value is not None):
\* [raised, state (the _current_state afterwards), last_point (the _last_point
\*  afterwards)]
last_point_setter(old_state, old_point, value) ==
    IF value.device_id # device_id
    THEN [raised |-> "ValueError", state |-> old_state, last_point |-> old_point]
    ELSE IF old_state = None
    THEN [raised |-> "", state |-> old_state, last_point |-> Some(value)]
    ELSE IF Val(old_state).attrs["state_timestamp"] = None
    THEN \* None < int: TypeError
         [raised |-> "TypeError", state |-> old_state, last_point |-> old_point]
    ELSE IF Val(Val(old_state).attrs["state_timestamp"]) < value.timestamp
    THEN [raised |-> "",
          state |-> Some(evolve(Val(old_state), point_evolve_args(value))),
          last_point |-> Some(value)]
    ELSE [raised |-> "", state |-> old_state, last_point |-> Some(value)]

\* CurrentState.get_ws_point_args(data, identifier=..., state_timestamp=timestamp):
\* the keys of the message that are source names of CurrentState attributes,
\* under the attribute's name, and the keyword arguments
get_ws_point_args(data, timestamp) ==
    [state_timestamp |-> Some(timestamp)]
    @@ (IF "x" \in DOMAIN data THEN [latitude |-> data.x] ELSE EmptyDict)
    @@ (IF "y" \in DOMAIN data THEN [longitude |-> data.y] ELSE EmptyDict)
    @@ (IF "fuel" \in DOMAIN data THEN [fuel |-> data.fuel] ELSE EmptyDict)
    @@ (IF "speed" \in DOMAIN data THEN [speed |-> data.speed] ELSE EmptyDict)

\* the TrackingPoint that _process_ws_point builds from the message
ws_tracking_point(data, timestamp) ==
    [device_id |-> device_id, timestamp |-> timestamp,
     latitude |-> data.x, longitude |-> data.y,
     fuel |-> Get(data, "fuel"), speed |-> Get(data, "speed")]

\* PandoraOnlineDevice.device_id (getter): int(self._attributes["id"])
device_id_property(attrs) == Val(attrs.id)

\* a setter that takes any dictionary that has an id
attributes_setter_unchecked(attrs, feats, value) ==
    IF "id" \notin DOMAIN value
    THEN [raised |-> "KeyError", attributes |-> attrs, features |-> feats]
    ELSE IF value.id = None
    THEN [raised |-> "TypeError", attributes |-> attrs, features |-> feats]
    ELSE [raised |-> "", attributes |-> value, features |-> None]

\* PandoraOnlineDevice.attributes (setter): [raised, attributes, features]
attributes_setter(attrs, feats, value) ==
    IF "id" \notin DOMAIN value
    THEN [raised |-> "KeyError", attributes |-> attrs, features |-> feats]
    ELSE IF value.id = None
    THEN \* int(None)
         [raised |-> "TypeError", attributes |-> attrs, features |-> feats]
    ELSE IF Val(value.id) # device_id_property(attrs)
    THEN [raised |-> "ValueError", attributes |-> attrs, features |-> feats]
    ELSE [raised |-> "", attributes |-> value, features |-> None]

\* PandoraOnlineDevice.features (getter): the cached Features, made from the
\* attributes when the cache is empty and they have a "features" mapping
features_property(attrs, feats) ==
    IF feats = None /\ "features" \in DOMAIN attrs
    THEN Some(attrs.features)
    ELSE feats

\* PandoraOnlineDevice.control_busy
control_busy == control_future # None /\ fut[Val(control_future)] = "pending"

\* PandoraOnlineDevice.release_control_lock(error) on a pending future: the
\* future is completed and the slot cleared
release_control_lock(error) ==
    /\ fut' = [fut EXCEPT ![Val(control_future)] =
                  IF error = None THEN "result" ELSE "exception"]
    /\ control_future' = None

-----------------------------------------------------------------------------
(* Inputs *)

\* the concurrent callers of async_remote_command
TaskIds == {"A", "B"}

Times == 1..MaxTime

SomeOf(S) == {Some(v) : v \in S}

\* every dict that gives each key of a subset of DOMAIN choices one of the
\* key's values
Dicts(choices) ==
    UNION {{d \in [K -> UNION {choices[k] : k \in K}] :
              \A k \in K : d[k] \in choices[k]} :
           K \in SUBSET DOMAIN choices}

\* update batches of the merge specification: a governed attribute, its
\* freshness timestamp, a command timestamp, an unknown key
MergeBatches ==
    Dicts([ speed                 |-> SomeOf(1..MaxSpeed),
            state_timestamp_utc   |-> SomeOf(Times),
            command_timestamp_utc |-> SomeOf({1}),
            not_a_real_field      |-> SomeOf({1}) ])

\* update batches of the session specification: a time update with a command
\* timestamp (null when the server sent none), a call without arguments, a
\* state update without timestamps, and the state update of a device one minute
\* ahead of UTC that carries both state timestamps, without and with a key the
\* schema lacks
SessionBatches ==
    {[command_timestamp_utc |-> c] : c \in SomeOf(1..MaxCommandTime) \cup {None}}
    \cup {EmptyDict, [speed |-> Some(1)],
          [speed |-> Some(1), state_timestamp |-> Some(61),
           state_timestamp_utc |-> Some(1)],
          [speed |-> Some(1), state_timestamp |-> Some(61),
           state_timestamp_utc |-> Some(1), not_a_real_field |-> Some(1)]}

\* differences between the local and the UTC clock that the devices of the
\* offset specification report: a tie rounding down to 0, 45 s rounding to one
\* minute, a negative tie rounding to the even -2 minutes
Skews == {-90, 30, 45}

\* one timestamp family of a batch of the offset specification: absent, the UTC
\* half alone, the local half alone, or both halves
FamilyChoices(prefix) ==
    {EmptyDict, Put(EmptyDict, utc_key(prefix), Some(1000)),
     Put(EmptyDict, non_utc_key(prefix), Some(2000))}
    \cup {Put(Put(EmptyDict, utc_key(prefix), Some(1000)),
              non_utc_key(prefix), Some(1000 + s)) : s \in Skews}

\* the settings timestamp of a batch of the offset specification: absent or
\* present (the schema has a UTC attribute only for settings and command)
SettingsChoices ==
    {EmptyDict, [settings_timestamp_utc |-> Some(1000)]}

\* update batches of the offset specification: every combination of the two
\* families update_current_state derives the offset from, without and with a
\* settings timestamp
TimeBatches ==
    {o @@ st @@ se : o \in FamilyChoices("online"), st \in FamilyChoices("state"),
                     se \in SettingsChoices}

\* a batch with the key alone, for each of the values, and the batch without it
Optional(k, values) == {EmptyDict} \cup {Put(EmptyDict, k, v) : v \in values}

\* update batches of the frame specification: two governed attributes, one of
\* them with a converter that is not the identity (lock_latitude, as the integer
\* of millionths of a degree the server sends), and their freshness timestamp,
\* absent, null or set
FrameBatches ==
    {s @@ l @@ t :
        s \in Optional("speed", SomeOf(1..MaxSpeed)),
        l \in Optional("lock_latitude", {Some([m |-> 55751244, e |-> 0])}),
        t \in Optional("state_timestamp_utc", SomeOf(Times) \cup {None})}

\* the devices a tracking point may name: the modelled one and another
DeviceIds == {device_id, device_id + 1}

\* the tracking points handed to the last_point setter
Points ==
    {[device_id |-> d, timestamp |-> t, latitude |-> Some(x), longitude |-> Some(x),
      fuel |-> None, speed |-> sp] :
        d \in DeviceIds, t \in Times, x \in 1..MaxSpeed, sp \in {None} \cup SomeOf({1})}

\* the data of the point messages the WebSocket delivers for the device, with
\* and without a speed
WsPoints ==
    {[dtime |-> Some(t), x |-> Some(x), y |-> Some(x)] : t \in Times, x \in 1..MaxSpeed}
    \cup {[dtime |-> Some(t), x |-> Some(x), y |-> Some(x), speed |-> Some(1)] :
             t \in Times, x \in 1..MaxSpeed}

\* update batches of the point specification: a state timestamp, or a speed
\* without any timestamp
PointBatches ==
    {[state_timestamp_utc |-> Some(t)] : t \in Times} \cup {[speed |-> Some(1)]}

\* the event objects of the updates feed and of the WebSocket event messages,
\* with a timestamp or without one
EventData ==
    {[id |-> i, dtime |-> t] : i \in 1..MaxTime, t \in SomeOf(Times) \cup {None}}

\* the "result" of a command-result message: a code, or something int() does
\* not decode
RawResults == SomeOf(0..1) \cup {None}

\* the "command" of a command-result message: the command of one of the callers
CommandIds == TaskIds

\* the raw attribute dictionaries of the devices list: the id of this device or
\* of another one, or a null id, or none; a name; with or without features
AttributeDicts ==
    {i @@ [name |-> Some(n)] @@ f :
        i \in Optional("id", SomeOf(DeviceIds) \cup {None}),
        n \in 1..MaxSpeed,
        f \in Optional("features", 1..MaxSpeed)}

\* the longest listing of devices
MaxListing == 2

\* the entries of a listing of devices: the "id" of the modelled device, null
\* or absent; with or without the "dev_id" of a device that is not registered
\* at first; a name that is not the one the devices were constructed with
ListingEntries ==
    {d @@ i @@ [name |-> Some(MaxSpeed)] :
        d \in Optional("dev_id", SomeOf({device_id + 2})),
        i \in Optional("id", SomeOf({device_id}) \cup {None})}

\* the state update of the device whose listing is refreshed
ListedBatches ==
    {[speed |-> Some(1), state_timestamp |-> Some(61), state_timestamp_utc |-> Some(1)]}

\* the listings of devices of at most MaxListing entries
Listings == UNION {[1..n -> ListingEntries] : n \in 0..MaxListing}

\* how the request of the listing ends
ListingRequests == {"ok", "ClientError"}

\* the raw values an identifier key may hold
RawIds == {JNull, JInt(0), JInt(1), JNumeral(0), JNumeral(1), JEmpty, JWord}

\* the payloads handed to parse_device_id
IdPayloads ==
    {d @@ i : d \in Optional("dev_id", RawIds), i \in Optional("id", RawIds)}

\* the raw values of a numeric key: null, a number, a string that is none
RawNumbers == {JNull, JInt(1), JWord}

\* the identifier keys of a raw state dictionary: either key, or neither
RawIdentifiers == {"dev_id" :> JInt(1), "id" :> JInt(1), EmptyDict}

\* the raw state dictionaries handed to CurrentState.from_dict
RawStates ==
    {i @@ r @@ b @@ x @@ h :
        i \in RawIdentifiers,
        r \in Optional("engine_rpm", {JInt(1), JWord}),
        b \in Optional("bit_state_1", RawNumbers),
        x \in Optional("lock_x", {JWord}),
        h \in Optional("heater_errors", {JNull, JList(0), JList(MaxSpeed)})}

\* the "time" data of one device in an updates response
HttpTimes ==
    {o @@ c : o \in Optional("online", SomeOf({1})),
              c \in Optional("command", SomeOf({1}))}

\* the "time" mappings of an updates response for the two devices
HttpTimeData == [{device_id, peer_id} -> HttpTimes]

\* the orders in which a response lists the two devices
DeviceOrders == {<<device_id, peer_id>>, <<peer_id, device_id>>}

\* a received frame: a text frame whose payload is a JSON object, another JSON
\* value or no JSON at all, a binary frame, or a close / error frame; id tells
\* the frames of a connection apart
Frame(type, json, id) == [type |-> type, json |-> json, id |-> id]

\* the local variable "contents" of _iterate_websockets before its first
\* assignment
Unbound == [json |-> "unbound", id |-> 0]

\* the frames a connection may deliver next: the id of a frame is its place
Frames(id) ==
    {Frame("text", json, id) : json \in {"object", "other", "invalid"}}
    \cup {Frame("binary", "none", id), Frame("close", "none", id)}

\* the callbacks async_listen_for_updates is given
CallbackSets ==
    {{}, {"event_callback"}, {"update_settings_callback"},
     {"state_callback", "command_callback", "event_callback", "point_callback",
      "update_settings_callback"}}

\* the arguments of async_listen_for_updates: the callbacks and
\* reconnect_on_device_online vary with the defaults auto_restart=False,
\* auto_reauth=True, and the two flags vary for a listener without callbacks
ListenerArgs ==
    [callbacks : CallbackSets, reconnect_on_device_online : BOOLEAN,
     auto_restart : {FALSE}, auto_reauth : {TRUE}]
    \cup [callbacks : {{}}, reconnect_on_device_online : {TRUE},
          auto_restart : BOOLEAN, auto_reauth : BOOLEAN]

\* the "data" of a message as far as the device id goes: the modelled device
\* under either key, a device that is not registered, a zero or a word for an
\* id, no id, and data that is no mapping
MessageIds ==
    {"dev_id" :> JInt(device_id), "id" :> JInt(device_id),
     "dev_id" :> JInt(device_id + 2), "dev_id" :> JInt(0), "id" :> JInt(0),
     "dev_id" :> JWord, EmptyDict, JNull}

\* the types of the messages and the rest of their "data"
MessageBodies ==
    {[type |-> t, body |-> b] :
        t \in {"initial-state", "state"},
        b \in {EmptyDict, [is_online |-> Some(0)], [is_online |-> Some(1)]}}
    \cup {[type |-> "point", body |-> [dtime |-> Some(1), x |-> Some(1), y |-> Some(1)]]}
    \cup {[type |-> "command", body |-> [command |-> "A", result |-> r]] :
             r \in {Some(0), None}}
    \cup {[type |-> "event", body |-> [id |-> 1, dtime |-> Some(1)]]}
    \cup {[type |-> t, body |-> EmptyDict] : t \in {"update-settings", "unknown"}}

\* the messages the iterator yields: every type for the modelled device, a
\* state message for every other kind of id, and envelopes without type or
\* without data
Messages ==
    {[type |-> m.type, data |-> "dev_id" :> JInt(device_id), body |-> m.body] :
        m \in MessageBodies}
    \cup {[type |-> "state", data |-> d, body |-> [is_online |-> Some(1)]] :
             d \in MessageIds}
    \cup {[type |-> "state"], [data |-> "dev_id" :> JInt(device_id)]}

\* how the iteration over a connection ends: a clean close, the known
\* exceptions, cancellation, and an exception of no known kind
EndReasons ==
    {"closed", "TimeoutError", "OSError", "ClientError", "PandoraOnlineException",
     "CancelledError", "UnboundLocalError"}

\* how the token check or the authentication of _do_ws_auto_auth ends
AuthResults ==
    {"ok", "AuthenticationError", "OSError", "TimeoutError", "CancelledError",
     "MalformedResponseError"}

\* how a sleep ends
SleepResults == {"ok", "CancelledError"}

\* what a callback does when it is called
CallbackOutcomes == {"returns", "raises", "awaited", "fails", "cancelled"}

\* the access tokens a caller provides: None, "" (written 0) or a token
AccessTokens == {None} \cup SomeOf(0..MaxToken)

\* the access tokens the server issues
FetchedTokens == SomeOf(1..MaxToken)

\* how an awaited request of the authentication ends
AwaitOutcomes == {"ok", "error", "cancelled"}

\* the payloads of a successful login request: a user id as an integer or as a
\* numeral, one that int() does not convert, and no user id
LoginPayloads ==
    {"user_id" :> JInt(1), "user_id" :> JNumeral(2), "user_id" :> JWord,
     "user_id" :> JNull, EmptyDict}

\* the UTC offsets an account is constructed with
AccountOffsets == {0, 60}

-----------------------------------------------------------------------------
(* Actions *)

Max(a, b) == IF a >= b THEN a ELSE b

\* a task that is not inside async_remote_command
Idle == [pc |-> "idle", ensure_complete |-> FALSE]

Event(op, args, raised, ret) ==
    [op |-> op, args |-> args, raised |-> raised, ret |-> ret]

\* device.update_current_state(**b), as called by the HTTP and WebSocket
\* state handlers of the account
UpdateCurrentState(batches) ==
    \E b \in batches :
      \E r \in {update_current_state(current_state, utc_offset,
                                      account_utc_offset, control_busy, b)} :
        LET changed == IF r.ret = None THEN EmptyDict ELSE Val(r.ret).changed
            T == Get(changed, DEFAULT_TIMESTAMP_SOURCE)
        IN  /\ current_state' = r.state
            /\ utc_offset' = r.stored
            /\ IF r.resolve
               THEN /\ fut' = [fut EXCEPT ![Val(control_future)] = "result"]
                    /\ control_future' = None
               ELSE UNCHANGED <<fut, control_future>>
            /\ last' = Event("update_current_state", b, r.raised, r.ret)
            /\ accepted' = [a \in Governed |->
                               IF a \in DOMAIN changed /\ T # None
                               THEN Max(accepted[a], Val(T)) ELSE accepted[a]]
            /\ UNCHANGED <<account_utc_offset, tasks,
                   last_point, last_event, attributes, features, peer_state, auth,
                   ws, listener, devices>>

\* a command that takes the slot whether its completion is to be ensured or not
takes_slot_always(ensure_complete) == TRUE

\* "if ensure_complete: self._control_future = control_future = asyncio.Future()"
takes_slot(ensure_complete) == ensure_complete

\* async_remote_command up to its first await: the two guards, the creation of
\* the control future, the request being started
RemoteCommandCall(t, ensure_complete) ==
    /\ tasks[t].pc = "idle"
    /\ IF current_state = None
       THEN /\ last' = Event("async_remote_command", t, "state update is required", None)
            /\ UNCHANGED <<tasks, fut, control_future>>
       ELSE IF control_busy
       THEN /\ last' = Event("async_remote_command", t, "device is busy executing command", None)
            /\ UNCHANGED <<tasks, fut, control_future>>
       ELSE /\ tasks' = [tasks EXCEPT ![t] = [pc |-> "sending",
                                              ensure_complete |-> ensure_complete]]
            /\ IF takes_slot(ensure_complete)
               THEN /\ fut' = [fut EXCEPT ![t] = "pending"]
                    /\ control_future' = Some(t)
               ELSE UNCHANGED <<fut, control_future>>
            /\ last' = Event("async_remote_command", t, "", Some("sending"))
    /\ UNCHANGED <<current_state, utc_offset, account_utc_offset, accepted,
                   last_point, last_event, attributes, features, peer_state, auth,
                   ws, listener, devices>>

\* account.async_remote_command returned: the server answered "sent"
CommandSent(t) ==
    /\ tasks[t].pc = "sending"
    /\ IF tasks[t].ensure_complete
       THEN /\ tasks' = [tasks EXCEPT ![t].pc = "waiting"]
            /\ last' = Event("command_sent", t, "", Some("waiting"))
       ELSE /\ tasks' = [tasks EXCEPT ![t] = Idle]
            /\ last' = Event("command_sent", t, "", Some("returned"))
    /\ UNCHANGED <<current_state, utc_offset, account_utc_offset, control_future,
                   fut, accepted,
                   last_point, last_event, attributes, features, peer_state, auth,
                   ws, listener, devices>>

\* account.async_remote_command raised (request failed, or a status other
\* than "sent"): the exception leaves async_remote_command
CommandSendFailed(t) ==
    /\ tasks[t].pc = "sending"
    /\ tasks' = [tasks EXCEPT ![t] = Idle]
    /\ last' = Event("command_sent", t, "PandoraOnlineException", None)
    /\ UNCHANGED <<current_state, utc_offset, account_utc_offset, control_future,
                   fut, accepted,
                   last_point, last_event, attributes, features, peer_state, auth,
                   ws, listener, devices>>

\* asyncio.wait_for(control_future, control_timeout) returns: the future is done
CommandCompleted(t) ==
    /\ tasks[t].pc = "waiting"
    /\ fut[t] \in {"result", "exception"}
    /\ tasks' = [tasks EXCEPT ![t] = Idle]
    /\ last' = IF fut[t] = "result"
               THEN Event("command_done", t, "", Some("returned"))
               ELSE Event("command_done", t, "PandoraOnlineException", None)
    /\ UNCHANGED <<current_state, utc_offset, account_utc_offset, control_future,
                   fut, accepted,
                   last_point, last_event, attributes, features, peer_state, auth,
                   ws, listener, devices>>

\* asyncio.wait_for: control_timeout expires first; the future is cancelled
\* and TimeoutError raised to the caller
CommandTimeout(t) ==
    /\ tasks[t].pc = "waiting"
    /\ fut[t] = "pending"
    /\ fut' = [fut EXCEPT ![t] = "cancelled"]
    /\ tasks' = [tasks EXCEPT ![t] = Idle]
    /\ last' = Event("command_done", t, "TimeoutError", None)
    /\ UNCHANGED <<current_state, utc_offset, account_utc_offset, control_future,
                   accepted,
                   last_point, last_event, attributes, features, peer_state, auth,
                   ws, listener, devices>>

\* a decoding that takes a result it cannot decode for a success
decode_result_lenient(raw) == IF raw = None THEN 0 ELSE Val(raw)

\* "result = int(result)", 1 when int() raises; a result that int() cannot
\* decode (null, a word) is the raw value None
decode_result(raw) == IF raw = None THEN 1 ELSE Val(raw)

\* account._process_ws_command: a command-result notification for the command
\* command_id (each caller sends a command of its own, named after it) with the
\* raw result code
ProcessWsCommand(command_id, raw) ==
    /\ IF control_busy
       THEN release_control_lock(IF decode_result(raw) # 0
                                 THEN Some(decode_result(raw)) ELSE None)
       ELSE UNCHANGED <<fut, control_future>>
    /\ last' = Event("_process_ws_command", [command |-> command_id, result |-> raw],
                     "", Some(decode_result(raw)))
    /\ UNCHANGED <<current_state, utc_offset, account_utc_offset, tasks, accepted,
                   last_point, last_event, attributes, features, peer_state, auth,
                   ws, listener, devices>>

\* a release that completes whatever future the slot holds, done or not
release_outcome_overwrites(slot, futs, error) ==
    IF slot = None
    THEN [raised |-> "ValueError", fut |-> futs, control_future |-> slot]
    ELSE [raised |-> "",
          fut |-> [futs EXCEPT ![Val(slot)] =
                      IF error = None THEN "result" ELSE "exception"],
          control_future |-> None]

\* PandoraOnlineDevice.release_control_lock(error), called on any device:
\* [raised, fut, control_future]
release_outcome(slot, futs, error) ==
    IF slot = None
    THEN [raised |-> "ValueError", fut |-> futs, control_future |-> slot]
    ELSE IF futs[Val(slot)] # "pending"
    THEN \* set_result / set_exception on a future that is done
         [raised |-> "InvalidStateError", fut |-> futs, control_future |-> slot]
    ELSE [raised |-> "",
          fut |-> [futs EXCEPT ![Val(slot)] =
                      IF error = None THEN "result" ELSE "exception"],
          control_future |-> None]

\* device.release_control_lock(error), called by the owner of the device
ReleaseControlLock(error) ==
    \E r \in {release_outcome(control_future, fut, error)} :
        /\ fut' = r.fut
        /\ control_future' = r.control_future
        /\ last' = Event("release_control_lock", error, r.raised, None)
        /\ UNCHANGED <<current_state, utc_offset, account_utc_offset, tasks, accepted,
                       last_point, last_event, attributes, features, peer_state, auth,
                       ws, listener, devices>>

\* device.last_point = value, for a tracking point
SetLastPoint(value) ==
    \E r \in {last_point_setter(current_state, last_point, value)} :
        /\ current_state' = r.state
        /\ last_point' = r.last_point
        /\ last' = Event("last_point", value, r.raised, None)
        /\ UNCHANGED <<utc_offset, account_utc_offset, control_future, fut, tasks,
                       accepted, last_event, attributes, features, peer_state, auth,
                       ws, listener, devices>>

\* account._process_ws_point(device, data), as _handle_ws_message calls it; an
\* exception is logged by the caller and the message dropped
ProcessWsPoint(data) ==
    LET timestamp == Val(data.dtime)
        b         == get_ws_point_args(data, timestamp)
    IN  IF current_state = None
        THEN /\ last' = Event("_process_ws_point", data, "",
                              Some([point |-> ws_tracking_point(data, timestamp),
                                    state_args |-> None]))
             /\ UNCHANGED <<current_state, utc_offset, account_utc_offset,
                            control_future, fut, tasks, accepted,
                   last_point, last_event, attributes, features, peer_state, auth,
                   ws, listener, devices>>
        ELSE IF Val(current_state).attrs["state_timestamp"] = None
        THEN \* None <= int: TypeError
             /\ last' = Event("_process_ws_point", data, "TypeError", None)
             /\ UNCHANGED <<current_state, utc_offset, account_utc_offset,
                            control_future, fut, tasks, accepted,
                   last_point, last_event, attributes, features, peer_state, auth,
                   ws, listener, devices>>
        ELSE IF Val(Val(current_state).attrs["state_timestamp"]) <= timestamp
        THEN \E r \in {update_current_state(current_state, utc_offset,
                                             account_utc_offset, control_busy, b)} :
               /\ current_state' = r.state
               /\ utc_offset' = r.stored
               /\ IF r.resolve
                  THEN /\ fut' = [fut EXCEPT ![Val(control_future)] = "result"]
                       /\ control_future' = None
                  ELSE UNCHANGED <<fut, control_future>>
               /\ last' = IF r.raised # ""
                          THEN Event("_process_ws_point", data, r.raised, None)
                          ELSE Event("_process_ws_point", data, "",
                                     Some([point |-> ws_tracking_point(data, timestamp),
                                           state_args |-> Some(Val(r.ret).changed)]))
               /\ UNCHANGED <<account_utc_offset, tasks, accepted,
                   last_point, last_event, attributes, features, peer_state, auth,
                   ws, listener, devices>>
        ELSE /\ last' = Event("_process_ws_point", data, "",
                              Some([point |-> ws_tracking_point(data, timestamp),
                                    state_args |-> None]))
             /\ UNCHANGED <<current_state, utc_offset, account_utc_offset,
                            control_future, fut, tasks, accepted,
                   last_point, last_event, attributes, features, peer_state, auth,
                   ws, listener, devices>>

\* the TrackingEvent class object, which is not an event: it has no timestamp
\* value
TrackingEventClass == [class |-> TRUE, identifier |-> None, timestamp |-> None]

\* TrackingEvent.from_dict(data, device_id=device.device_id)
TrackingEvent(data) ==
    [class |-> FALSE, identifier |-> Some(data.id), timestamp |-> data.dtime]

\* account._process_http_event(device, data), which is _process_ws_event too:
\* [raised, last_event (the device's _last_event afterwards)]
process_http_event(old_event, data) ==
    IF old_event = None
    THEN \* "(e := device.last_event) and ...": None is falsy
         [raised |-> "", last_event |-> old_event]
    ELSE IF Val(old_event).timestamp = None \/ TrackingEvent(data).timestamp = None
    THEN \* the class attribute, or a null timestamp, compared with <
         [raised |-> "TypeError", last_event |-> old_event]
    ELSE IF Val(Val(old_event).timestamp) < Val(TrackingEvent(data).timestamp)
    THEN [raised |-> "", last_event |-> Some(TrackingEventClass)]
    ELSE [raised |-> "", last_event |-> old_event]

\* an event of the updates feed or a WebSocket event message is processed
ProcessEvent(data) ==
    \E r \in {process_http_event(last_event, data)} :
        /\ last_event' = r.last_event
        /\ last' = Event("_process_http_event", data, r.raised,
                         IF r.raised = "" THEN Some(TrackingEvent(data)) ELSE None)
        /\ UNCHANGED <<current_state, utc_offset, account_utc_offset, control_future,
                       fut, tasks, accepted, last_point, attributes, features,
                       peer_state, auth,
                       ws, listener, devices>>

\* device.last_event = value, for an event
SetLastEvent(value) ==
    /\ last_event' = Some(value)
    /\ last' = Event("last_event", value, "", None)
    /\ UNCHANGED <<current_state, utc_offset, account_utc_offset, control_future,
                   fut, tasks, accepted, last_point, attributes, features,
                   peer_state, auth,
                   ws, listener, devices>>

\* device.attributes = value
SetAttributes(value) ==
    \E r \in {attributes_setter(attributes, features, value)} :
        /\ attributes' = r.attributes
        /\ features' = r.features
        /\ devices' = [devices EXCEPT ![device_id].attributes = r.attributes]
        /\ last' = Event("attributes", value, r.raised, None)
        /\ UNCHANGED <<current_state, utc_offset, account_utc_offset, control_future,
                       fut, tasks, accepted, last_point, last_event, peer_state, auth,
                       ws, listener>>

\* device.features is read
ReadFeatures ==
    /\ features' = features_property(attributes, features)
    /\ last' = Event("features", None, "", features')
    /\ UNCHANGED <<current_state, utc_offset, account_utc_offset, control_future,
                   fut, tasks, accepted, last_point, last_event, attributes,
                   peer_state, auth,
                   ws, listener, devices>>

\* _process_http_state: the arguments update_current_state gets for the "time"
\* data of a device; the four timestamps are read with .get, so a missing one
\* is passed as None; empty data passes nothing
http_time_args(data_time) ==
    IF data_time = EmptyDict THEN EmptyDict
    ELSE [ online_timestamp       |-> Get(data_time, "onlined"),
           online_timestamp_utc   |-> Get(data_time, "online"),
           command_timestamp_utc  |-> Get(data_time, "command"),
           settings_timestamp_utc |-> Get(data_time, "setting") ]

\* async_request_updates for a response whose "time" mapping has data for the
\* two devices in the given order: "for device_id, update_args in
\* updates.items()" calls _process_http_state for one device after the other
\* with no exception handler, so the first that raises ends the loop and the
\* call
HttpUpdates(order, data) ==
    \E r1 \in {update_current_state(current_state, utc_offset, account_utc_offset,
                                     control_busy, http_time_args(data[device_id]))},
       r2 \in {update_current_state(peer_state.state, peer_state.utc_offset,
                                     account_utc_offset, FALSE,
                                     http_time_args(data[peer_id]))} :
        LET reached1 == order[1] = device_id \/ r2.raised = ""
            reached2 == order[1] = peer_id \/ r1.raised = ""
            raised   == IF order[1] = device_id
                        THEN (IF r1.raised # "" THEN r1.raised ELSE r2.raised)
                        ELSE (IF r2.raised # "" THEN r2.raised ELSE r1.raised)
            changed  == IF r1.ret = None \/ ~reached1 THEN EmptyDict
                        ELSE Val(r1.ret).changed
            T        == Get(changed, DEFAULT_TIMESTAMP_SOURCE)
        IN  /\ current_state' = IF reached1 THEN r1.state ELSE current_state
            /\ utc_offset' = IF reached1 THEN r1.stored ELSE utc_offset
            /\ IF reached1 /\ r1.resolve
               THEN /\ fut' = [fut EXCEPT ![Val(control_future)] = "result"]
                    /\ control_future' = None
               ELSE UNCHANGED <<fut, control_future>>
            /\ peer_state' = IF reached2
                              THEN [state |-> r2.state, utc_offset |-> r2.stored]
                              ELSE peer_state
            /\ last' = Event("async_request_updates",
                             [order |-> order, data |-> data], raised,
                             IF raised # "" THEN None ELSE Some(changed))
            /\ accepted' = [a \in Governed |->
                               IF a \in DOMAIN changed /\ T # None
                               THEN Max(accepted[a], Val(T)) ELSE accepted[a]]
            /\ UNCHANGED <<account_utc_offset, tasks,
                   last_point, last_event, attributes, features, auth,
                   ws, listener, devices>>

\* bool(access_token): neither None nor ""
NonEmpty(token) == token # None /\ Val(token) # 0

\* one awaited step of async_authenticate, as it ended
AuthStep(kind, token, result) == [kind |-> kind, token |-> token, result |-> result]

\* a variant of the second step that applies the existing token whenever it is
\* not empty, the provided one again included
after_provided_always(a) ==
    IF NonEmpty(a.access_token)
    THEN [a EXCEPT !.pc = "apply_existing", !.token = a.access_token]
    ELSE [a EXCEPT !.pc = "fetch", !.token = a.access_token]

\* async_authenticate after the first step: "if access_token != (access_token
\* := self.access_token) and access_token" applies the existing token, else the
\* fetch is next; the local token is the existing one either way
after_provided(a) ==
    IF a.token # a.access_token /\ NonEmpty(a.access_token)
    THEN [a EXCEPT !.pc = "apply_existing", !.token = a.access_token]
    ELSE [a EXCEPT !.pc = "fetch", !.token = a.access_token]

\* the variables async_authenticate does not touch
not_auth ==
    <<current_state, utc_offset, account_utc_offset, control_future, fut, tasks,
      last, accepted, last_point, last_event, attributes, features, peer_state,
      ws, listener, devices>>

\* async_authenticate(access_token) up to its first await
AuthenticateCall(access_token) ==
    /\ auth.pc = "idle"
    /\ LET a == [auth EXCEPT !.provided = access_token, !.token = access_token,
                              !.existing = auth.access_token, !.steps = <<>>,
                              !.outcome = "running"]
       IN  auth' = IF NonEmpty(access_token)
                   THEN [a EXCEPT !.pc = "apply_provided"]
                   ELSE after_provided(a)
    /\ UNCHANGED not_auth

\* an async_apply_access_token that stores the token before the login request
apply_access_token_eager(a, token, result, data) ==
    LET b == [a EXCEPT !.access_token = token]
    IN  IF result # "ok" THEN [raised |-> result, account |-> b]
        ELSE IF "user_id" \notin DOMAIN data \/ py_int(data.user_id).raised # ""
        THEN [raised |-> "error", account |-> b]
        ELSE [raised |-> "",
              account |-> [b EXCEPT !.user_id = Some(py_int(data.user_id).value)]]

\* async_apply_access_token(token) of the account a, when its login request
\* ended as result with the payload data: the request fails ("error") or is
\* cancelled; int(data["user_id"]) raises KeyError, TypeError or ValueError,
\* raised on as MalformedResponseError ("error"); or _user_id and access_token
\* are saved
apply_access_token(a, token, result, data) ==
    IF result # "ok" THEN [raised |-> result, account |-> a]
    ELSE IF "user_id" \notin DOMAIN data \/ py_int(data.user_id).raised # ""
    THEN [raised |-> "error", account |-> a]
    ELSE [raised |-> "",
          account |-> [a EXCEPT !.user_id = Some(py_int(data.user_id).value),
                                !.access_token = token]]

\* an awaited async_apply_access_token ends: on success it has saved the token
\* and the user id, and async_authenticate returns; CancelledError is
\* re-raised; another exception is logged, and re-raised in the last step only
ApplyEnds(request, data) ==
    /\ auth.pc \in {"apply_provided", "apply_existing", "apply_fetched"}
    /\ LET r      == apply_access_token(auth, auth.token, request, data)
           result == IF r.raised = "" THEN "ok" ELSE r.raised
           a      == [r.account EXCEPT
                         !.steps = Append(@, AuthStep(auth.pc, auth.token, result))]
       IN  auth' =
             CASE result = "ok" ->
                    [a EXCEPT !.pc = "idle", !.outcome = "returned"]
               [] result = "cancelled" ->
                    [a EXCEPT !.pc = "idle", !.outcome = "cancelled"]
               [] result = "error" /\ auth.pc = "apply_provided" -> after_provided(a)
               [] result = "error" /\ auth.pc = "apply_existing" ->
                    [a EXCEPT !.pc = "fetch"]
               [] result = "error" /\ auth.pc = "apply_fetched" ->
                    [a EXCEPT !.pc = "idle", !.outcome = "raised"]
    /\ UNCHANGED not_auth

\* the awaited async_fetch_access_token ends: its token is applied next;
\* CancelledError and any other exception are re-raised
FetchEnds(result, fetched) ==
    /\ auth.pc = "fetch"
    /\ LET a == [auth EXCEPT !.steps = Append(@, AuthStep("fetch", None, result))]
       IN  auth' =
             CASE result = "ok" -> [a EXCEPT !.pc = "apply_fetched", !.token = fetched]
               [] result = "cancelled" ->
                    [a EXCEPT !.pc = "idle", !.outcome = "cancelled"]
               [] result = "error" -> [a EXCEPT !.pc = "idle", !.outcome = "raised"]
    /\ UNCHANGED not_auth

\* the variables _iterate_websockets does not touch
not_ws ==
    <<current_state, utc_offset, account_utc_offset, control_future, fut, tasks,
      last, accepted, last_point, last_event, attributes, features, peer_state,
      auth, listener, devices>>

\* _iterate_websockets up to its first receive: the connection is opened
IterateWebsockets(timed) ==
    /\ ws.pc = "closed"
    /\ ws' = [pc |-> "open", timed |-> timed, contents |-> Unbound,
              received |-> <<>>, yielded |-> <<>>, raised |-> ""]
    /\ UNCHANGED not_ws

\* one round of "while not ws.closed": a frame is received. With a read
\* timeout, frames that are neither text nor close are skipped; without one
\* they end the loop, as close frames do. message.json() assigns contents
\* unless it raises JSONDecodeError, which is logged; then contents, whatever
\* it holds, is yielded when it is a mapping
Receive(frame) ==
    /\ ws.pc = "open"
    /\ Len(ws.received) < MaxFrames
    /\ LET w == [ws EXCEPT !.received = Append(@, frame)]
       IN  ws' =
             IF frame.type = "binary" /\ ws.timed THEN w
             ELSE IF frame.type # "text" THEN [w EXCEPT !.pc = "closed"]
             ELSE LET contents == IF frame.json = "invalid" THEN ws.contents
                                  ELSE [json |-> frame.json, id |-> frame.id]
                  IN  IF contents = Unbound
                      THEN [w EXCEPT !.pc = "closed", !.raised = "UnboundLocalError"]
                      ELSE IF contents.json = "object"
                      THEN [w EXCEPT !.contents = contents,
                                     !.yielded = Append(@, contents.id)]
                      ELSE [w EXCEPT !.contents = contents]
    /\ UNCHANGED not_ws

\* the read timeout expires while a frame is awaited
ReceiveTimeout ==
    /\ ws.pc = "open"
    /\ ws.timed
    /\ ws' = [ws EXCEPT !.pc = "closed", !.raised = "TimeoutError"]
    /\ UNCHANGED not_ws

\* PandoraOnlineDevice.is_online: "current_state is not None and
\* current_state.is_online", taken for a truth value
is_online_property(state) == state # None /\ Val(state).attrs["is_online"] = Some(1)

\* what the processing of a message by one of the _process_ws_* methods leaves:
\* the exception it raised, and the device's _current_state, _utc_offset,
\* futures, _control_future and _last_event afterwards; changed is the
\* dictionary of real updates of a state update
Effects(raised, state, stored, futs, slot, event, changed) ==
    [raised |-> raised, state |-> state, stored |-> stored, fut |-> futs,
     control_future |-> slot, last_event |-> event, changed |-> changed]

\* a message that reaches no _process_ws_* method
NoEffects ==
    Effects("", current_state, utc_offset, fut, control_future, last_event, EmptyDict)

\* what device.update_current_state(**body) leaves
update_effects(body) ==
    LET r == update_current_state(current_state, utc_offset, account_utc_offset,
                                  control_busy, body)
    IN  Effects(r.raised, r.state, r.stored,
                IF r.resolve THEN [fut EXCEPT ![Val(control_future)] = "result"] ELSE fut,
                IF r.resolve THEN None ELSE control_future,
                last_event,
                IF r.ret = None THEN EmptyDict ELSE Val(r.ret).changed)

\* _process_ws_point: the state is updated when there is one and its
\* state_timestamp is not after the point's
process_ws_point(body) ==
    IF current_state = None THEN NoEffects
    ELSE IF Val(current_state).attrs["state_timestamp"] = None
    THEN [NoEffects EXCEPT !.raised = "TypeError"]
    ELSE IF Val(Val(current_state).attrs["state_timestamp"]) <= Val(body.dtime)
    THEN update_effects(get_ws_point_args(body, Val(body.dtime)))
    ELSE NoEffects

\* _process_ws_command: a busy device is released, with an error unless the
\* decoded result is 0
process_ws_command(body) ==
    IF ~control_busy THEN NoEffects
    ELSE LET r == release_outcome(control_future, fut,
                                  IF decode_result(body.result) # 0
                                  THEN Some(decode_result(body.result)) ELSE None)
         IN  Effects(r.raised, current_state, utc_offset, r.fut, r.control_future,
                     last_event, EmptyDict)

\* _process_ws_event, which is _process_http_event
process_ws_event(body) ==
    LET r == process_http_event(last_event, body)
    IN  Effects(r.raised, current_state, utc_offset, fut, control_future,
                r.last_event, EmptyDict)

\* the _process_ws_* call of _handle_ws_message for a message of the device
processing(type_, body) ==
    CASE type_ \in {"initial-state", "state"} -> update_effects(body)
      [] type_ = "point"   -> process_ws_point(body)
      [] type_ = "command" -> process_ws_command(body)
      [] type_ = "event"   -> process_ws_event(body)
      [] OTHER             -> NoEffects

\* the callback _handle_ws_message calls for a message type
callback_of(type_) ==
    CASE type_ \in {"initial-state", "state"} -> "state_callback"
      [] type_ = "point"           -> "point_callback"
      [] type_ = "command"         -> "command_callback"
      [] type_ = "event"           -> "event_callback"
      [] type_ = "update-settings" -> "update_settings_callback"
      [] OTHER                     -> ""

\* the callback whose presence _handle_ws_message tests before it calls
\* callback_of(type_): for update-settings "if event_callback:"
callback_guard(type_) ==
    IF type_ = "update-settings" THEN "event_callback" ELSE callback_of(type_)

\* "reconnect_on_device_online and not prev_online and device.is_online", in
\* the branch of the state messages
wants_restart(type_, args, prev_online, online) ==
    type_ = "state" /\ args.reconnect_on_device_online /\ ~prev_online /\ online

\* what _handle_ws_message did: the exception that left it, its return value
\* ("True" keep running, "None" restart), the callback it called, what it
\* logged, and the effects of the processing
Handled(raised, response, invoked, logged, effects) ==
    [raised |-> raised, response |-> response, invoked |-> invoked,
     logged |-> logged, effects |-> effects]

\* _handle_ws_message from "return_result = True" on, for a message of the
\* device: the processing, whose effects are e, and the call of the callback
\* inside "try ... except BaseException: ... return True", then the await of
\* what the callback returned. outcome is what the callback does: "returns"
\* None, "raises" when called, returns an awaitable that is "awaited" to its
\* end, that "fails", or whose await is "cancelled"
dispatch(type_, e, args, outcome) ==
    LET restart == wants_restart(type_, args, is_online_property(current_state),
                                 is_online_property(e.state))
        result  == IF restart THEN "None" ELSE "True"
        known   == callback_of(type_) # ""
        guarded == known /\ callback_guard(type_) \in args.callbacks
        callee  == callback_of(type_)
    IN  IF ~known THEN Handled("", "True", "", "unknown type", e)
        ELSE IF e.raised # "" THEN Handled("", "True", "", "processing", e)
        ELSE IF ~guarded THEN Handled("", result, "", "", e)
        ELSE IF callee \notin args.callbacks
        THEN \* None is called: TypeError
             Handled("", "True", "", "processing", e)
        ELSE CASE outcome = "raises"    -> Handled("", "True", callee, "processing", e)
               [] outcome = "returns"   -> Handled("", result, callee, "", e)
               [] outcome = "awaited"   -> Handled("", result, callee, "", e)
               [] outcome = "fails"     -> Handled("", result, callee, "callback", e)
               [] outcome = "cancelled" -> Handled("CancelledError", "", callee, "", e)

\* _handle_ws_message(contents): the envelope, the device id, the registry,
\* then the dispatch. The handler of (TypeError, ValueError) from
\* parse_device_id logs data['dev_id'], which raises in its turn when data has
\* no such key or is no mapping
handle_ws_message(contents, args, outcome) ==
    IF ~({"type", "data"} \subseteq DOMAIN contents)
    THEN Handled("", "True", "", "malformed data", NoEffects)
    ELSE LET data   == contents.data
             parsed == IF data = JNull THEN [raised |-> "TypeError", ret |-> None]
                       ELSE parse_device_id(data)
         IN  IF parsed.raised \in {"TypeError", "ValueError"}
             THEN IF data = JNull THEN Handled("TypeError", "", "", "", NoEffects)
                  ELSE IF "dev_id" \notin DOMAIN data
                  THEN Handled("KeyError", "", "", "", NoEffects)
                  ELSE Handled("", "True", "", "invalid device ID", NoEffects)
             ELSE IF parsed.raised # ""
             THEN Handled("", "True", "", "no device ID", NoEffects)
             ELSE IF Val(parsed.ret) \notin DOMAIN devices
             THEN Handled("", "True", "", "unregistered device", NoEffects)
             ELSE dispatch(contents.type,
                           processing(contents.type, contents.body), args, outcome)

\* the listener after an exception left it
Ended(l, raised) == [l EXCEPT !.pc = "ended", !.outcome = raised]

\* the listener after a new connection was opened
Reconnected(l) == [l EXCEPT !.pc = "connected", !.connections = @ + 1]

\* a loop that goes on only while the handler asks to keep running
loop_goes_on_while_true(response) == response = "True"

\* "while response is not False" of async_listen_for_updates, at the top of
\* the loop and after "if not response: break", when response is "None"
loop_goes_on(response) == response # "False"

\* async_listen_for_updates(...) up to the first message: the first connection
ListenForUpdates(args) ==
    /\ listener.pc = "idle"
    /\ listener' = [pc |-> "connected", args |-> args, connections |-> 1,
                    outcome |-> ""]
    /\ last' = Event("async_listen_for_updates", args, "", None)
    /\ UNCHANGED <<current_state, utc_offset, account_utc_offset, control_future,
                   fut, tasks, accepted, last_point, last_event, attributes,
                   features, peer_state, auth, ws, devices>>

\* a message is yielded to "async for message in async_listen_websockets(...)"
\* and handled: "if not (response := await _handle_ws_message(message)):
\* break", after which the loop opens a new connection unless response is
\* False
HandleWsMessage(contents, outcome) ==
    /\ listener.pc = "connected"
    /\ \E h \in {handle_ws_message(contents, listener.args, outcome)} :
        LET T == Get(h.effects.changed, DEFAULT_TIMESTAMP_SOURCE)
        IN  /\ (h.raised = "" /\ h.response # "True")
                   => listener.connections < MaxConnections
            /\ current_state' = h.effects.state
            /\ utc_offset' = h.effects.stored
            /\ fut' = h.effects.fut
            /\ control_future' = h.effects.control_future
            /\ last_event' = h.effects.last_event
            /\ accepted' = [a \in Governed |->
                               IF a \in DOMAIN h.effects.changed /\ T # None
                               THEN Max(accepted[a], Val(T)) ELSE accepted[a]]
            /\ last' = Event("_handle_ws_message", contents, h.raised,
                             Some([response |-> h.response, invoked |-> h.invoked,
                                   logged |-> h.logged]))
            /\ listener' =
                  IF h.raised # "" THEN Ended(listener, h.raised)
                  ELSE IF h.response = "True" THEN listener
                  ELSE IF loop_goes_on(h.response) THEN Reconnected(listener)
                  ELSE Ended(listener, "returned")
    /\ UNCHANGED <<account_utc_offset, tasks, last_point, attributes, features,
                   peer_state, auth, ws, devices>>

\* the variables the connection loop of the listener does not touch
not_listener ==
    <<current_state, utc_offset, account_utc_offset, control_future, fut, tasks,
      accepted, last_point, last_event, attributes, features, peer_state, auth,
      ws, devices>>

\* async_listen_websockets when the iteration over the connection ends: how
\* reason is handled. CancelledError is re-raised; TimeoutError, OSError,
\* aiohttp.ClientError and PandoraOnlineException are the known exceptions; a
\* clean close has none; any other exception is not caught
connection_ended(l, reason) ==
    IF reason \notin {"closed", "TimeoutError", "OSError", "ClientError",
                      "PandoraOnlineException"}
    THEN Ended(l, reason)
    ELSE IF ~l.args.auto_restart
    THEN Ended(l, IF reason = "closed" THEN "WS closed prematurely" ELSE reason)
    ELSE IF l.args.auto_reauth THEN [l EXCEPT !.pc = "checking"]
    ELSE [l EXCEPT !.pc = "sleeping"]

\* a reauthentication that takes a temporary error for a success
auth_attempt_ended_lenient(l, result) ==
    CASE result \in {"ok", "OSError", "TimeoutError"} -> Reconnected(l)
      [] result = "AuthenticationError" ->
            IF l.pc = "checking" THEN [l EXCEPT !.pc = "authenticating"]
            ELSE Ended(l, result)
      [] OTHER -> Ended(l, result)

\* _do_ws_auto_auth when async_check_access_token (pc "checking") or
\* async_authenticate (pc "authenticating") ends: success returns True and the
\* loop of async_listen_websockets connects again; an AuthenticationError of the
\* check starts the authentication, one of the authentication is re-raised;
\* OSError and TimeoutError return False, and the loop sleeps before the next
\* check; CancelledError and any other exception leave the listener
auth_attempt_ended(l, result) ==
    CASE result = "ok" -> Reconnected(l)
      [] result = "AuthenticationError" ->
            IF l.pc = "checking" THEN [l EXCEPT !.pc = "authenticating"]
            ELSE Ended(l, result)
      [] result \in {"OSError", "TimeoutError"} -> [l EXCEPT !.pc = "pausing"]
      [] OTHER -> Ended(l, result)

\* the iteration over the connection ends: the connection is closed or lost,
\* or an exception leaves _iterate_websockets
ConnectionEnds(reason) ==
    /\ listener.pc = "connected"
    /\ listener' = connection_ended(listener, reason)
    /\ last' = Event("connection_ended", reason, listener'.outcome, None)
    /\ UNCHANGED not_listener

\* the awaited async_check_access_token or async_authenticate of
\* _do_ws_auto_auth ends
AuthAttemptEnds(result) ==
    /\ listener.pc \in {"checking", "authenticating"}
    /\ result = "ok" => listener.connections < MaxConnections
    /\ listener' = auth_attempt_ended(listener, result)
    /\ last' = Event("_do_ws_auto_auth", result, listener'.outcome, None)
    /\ UNCHANGED not_listener

\* "await asyncio.sleep(3.0)" ends: after a temporary authentication error the
\* token is checked again; without auto_reauth the loop connects again
SleepEnds(result) ==
    /\ listener.pc \in {"pausing", "sleeping"}
    /\ (result = "ok" /\ listener.pc = "sleeping") => listener.connections < MaxConnections
    /\ listener' = IF result # "ok" THEN Ended(listener, result)
                   ELSE IF listener.pc = "pausing" THEN [listener EXCEPT !.pc = "checking"]
                   ELSE Reconnected(listener)
    /\ last' = Event("sleep", result, listener'.outcome, None)
    /\ UNCHANGED not_listener

\* the raw JSON value of an attribute
raw_value(x) == IF x = None THEN JNull ELSE JInt(Val(x))

\* the identifier keys of a listing entry, as parse_device_id reads them
id_payload(entry) ==
    [k \in DOMAIN entry \cap {"dev_id", "id"} |-> raw_value(entry[k])]

\* a number no object of the registry has
new_object(registry) ==
    1 + Cardinality({registry[k].object : k \in DOMAIN registry})

\* "device_object.attributes = device_attributes" for a registered device:
\* int(value["id"]) is evaluated first, then self.device_id, which is
\* int(self._attributes["id"]): [raised, attributes]
registered_attributes(attrs, value) ==
    IF "id" \in DOMAIN value /\ value.id # None /\ "id" \notin DOMAIN attrs
    THEN [raised |-> "KeyError", attributes |-> attrs]
    ELSE IF "id" \in DOMAIN value /\ value.id # None /\ attrs.id = None
    THEN [raised |-> "TypeError", attributes |-> attrs]
    ELSE LET r == attributes_setter(attrs, None, value)
         IN  [raised |-> r.raised, attributes |-> r.attributes]

\* a refresh that constructs a device object for every entry
listed_device_anew(registry, id, entry) ==
    [raised |-> "",
     devices |-> (id :> [object |-> new_object(registry), attributes |-> entry])
                     @@ registry]

\* one entry of the listing whose identifier is id: the attributes of a
\* registered device are replaced through the setter, whose exception is not
\* caught; a PandoraOnlineDevice is constructed for an id that is not
\* registered: [raised, devices]
listed_device(registry, id, entry) ==
    IF id \in DOMAIN registry
    THEN LET r == registered_attributes(registry[id].attributes, entry)
         IN  [raised |-> r.raised,
              devices |-> [registry EXCEPT ![id].attributes = r.attributes]]
    ELSE [raised |-> "",
          devices |-> (id :> [object |-> new_object(registry), attributes |-> entry])
                          @@ registry]

\* "for device_attributes in devices_data" of async_refresh_devices: an entry
\* whose identifier parse_device_id does not return is logged and skipped; the
\* loop ends with the first exception of the setter. replaced is the set of
\* the registered ids whose attributes were assigned: [raised, devices,
\* replaced]
RECURSIVE refresh_devices(_, _, _)
refresh_devices(registry, replaced, listing) ==
    IF listing = <<>>
    THEN [raised |-> "", devices |-> registry, replaced |-> replaced]
    ELSE LET parsed == parse_device_id(id_payload(Head(listing)))
         IN  IF parsed.raised # ""
             THEN refresh_devices(registry, replaced, Tail(listing))
             ELSE LET id == Val(parsed.ret)
                      r  == listed_device(registry, id, Head(listing))
                  IN  IF r.raised # ""
                      THEN [raised |-> r.raised, devices |-> registry,
                            replaced |-> replaced]
                      ELSE refresh_devices(
                               r.devices,
                               IF id \in DOMAIN registry THEN replaced \cup {id}
                               ELSE replaced,
                               Tail(listing))

\* async_refresh_devices(): without an access token it raises
\* MissingAccessTokenError; the request of the listing fails or is answered
\* with the listing, whose entries are then gone through. The attributes of
\* the modelled device are those of its registry entry, and assigning them
\* empties its cache of features
RefreshDevices(request, listing) ==
    /\ \E r \in {IF ~NonEmpty(auth.access_token)
                  THEN [raised |-> "MissingAccessTokenError", devices |-> devices,
                        replaced |-> {}]
                  ELSE IF request # "ok"
                  THEN [raised |-> request, devices |-> devices, replaced |-> {}]
                  ELSE refresh_devices(devices, {}, listing)} :
          /\ devices' = r.devices
          /\ attributes' = r.devices[device_id].attributes
          /\ features' = IF device_id \in r.replaced THEN None ELSE features
          /\ last' = Event("async_refresh_devices",
                           [request |-> request, listing |-> listing], r.raised, None)
    /\ UNCHANGED <<current_state, utc_offset, account_utc_offset, control_future,
                   fut, tasks, accepted, last_point, last_event, peer_state, auth,
                   ws, listener>>

\* the variables of the device and the account, which the conversions of raw
\* values do not touch
objects ==
    <<current_state, utc_offset, account_utc_offset, control_future, fut, tasks,
      accepted, last_point, last_event, attributes, features, peer_state, auth,
      ws, listener, devices>>

\* PandoraOnlineAccount.parse_device_id(data) is called
ParseDeviceId(data) ==
    \E r \in {parse_device_id(data)} :
        /\ last' = Event("parse_device_id", data, r.raised, r.ret)
        /\ UNCHANGED objects

\* CurrentState.from_dict(data) is called
FromDict(data) ==
    \E r \in {from_dict(data)} :
        /\ last' = Event("from_dict", data, r.raised, r.ret)
        /\ UNCHANGED objects

-----------------------------------------------------------------------------
(* Specifications *)

\* the raw attributes a device is constructed with
InitialAttributes == [id |-> Some(device_id), name |-> Some(1)]

\* an account that holds no access token and is not authenticating
\* a second device of the account, as constructed: no state, no UTC offset of
\* its own; no command is ever sent to it
InitialPeer == [state |-> None, utc_offset |-> None]

\* no WebSocket connection
InitialWs ==
    [pc |-> "closed", timed |-> FALSE, contents |-> Unbound, received |-> <<>>,
     yielded |-> <<>>, raised |-> ""]

\* no listener running
InitialListener == [pc |-> "idle", args |-> None, connections |-> 0, outcome |-> ""]

\* the registry of the account: the two devices, each the object that was
\* constructed for it, with the raw attributes it was constructed with
InitialDevices ==
    [id \in {device_id, peer_id} |->
        [object |-> id, attributes |-> [id |-> Some(id), name |-> Some(1)]]]

InitialAuth ==
    [pc |-> "idle", access_token |-> None, user_id |-> None, provided |-> None,
     existing |-> None, token |-> None, steps |-> <<>>, outcome |-> "none"]

Init ==
    /\ current_state = None
    /\ utc_offset = None
    /\ account_utc_offset = 0
    /\ control_future = None
    /\ fut = [t \in TaskIds |-> "none"]
    /\ tasks = [t \in TaskIds |-> Idle]
    /\ last = Event("init", None, "", None)
    /\ accepted = [a \in Governed |-> -1]
    /\ last_point = None
    /\ last_event = None
    /\ attributes = InitialAttributes
    /\ features = None
    /\ peer_state = InitialPeer
    /\ auth = InitialAuth
    /\ ws = InitialWs
    /\ listener = InitialListener
    /\ devices = InitialDevices

UpdateSession == UpdateCurrentState(SessionBatches)

RemoteCommand == \E t \in TaskIds, e \in BOOLEAN : RemoteCommandCall(t, e)

Sent == \E t \in TaskIds : CommandSent(t)

SendFailed == \E t \in TaskIds : CommandSendFailed(t)

Completed == \E t \in TaskIds : CommandCompleted(t)

Timeout == \E t \in TaskIds : CommandTimeout(t)

WsCommand == \E command_id \in CommandIds, raw \in RawResults : ProcessWsCommand(command_id, raw)

Release == \E error \in {None} \cup SomeOf({1}) : ReleaseControlLock(error)

\* the device session: state updates interleaved with remote commands
Next ==
    \/ UpdateSession
    \/ RemoteCommand
    \/ Sent
    \/ SendFailed
    \/ Completed
    \/ Timeout
    \/ WsCommand
    \/ Release

Spec == Init /\ [][Next]_vars

UpdateMerge == UpdateCurrentState(MergeBatches)

\* the merge engine: a device receiving update batches in any order
NextMerge == UpdateMerge

SpecMerge == Init /\ [][NextMerge]_vars

InitOffset ==
    /\ current_state = None
    /\ utc_offset = None
    /\ account_utc_offset \in AccountOffsets
    /\ control_future = None
    /\ fut = [t \in TaskIds |-> "none"]
    /\ tasks = [t \in TaskIds |-> Idle]
    /\ last = Event("init", None, "", None)
    /\ accepted = [a \in Governed |-> -1]
    /\ last_point = None
    /\ last_event = None
    /\ attributes = InitialAttributes
    /\ features = None
    /\ peer_state = InitialPeer
    /\ auth = InitialAuth
    /\ ws = InitialWs
    /\ listener = InitialListener
    /\ devices = InitialDevices

UpdateTimes == UpdateCurrentState(TimeBatches)

\* the timestamp reconciler: a device receiving batches of timestamps
NextOffset == UpdateTimes

SpecOffset == InitOffset /\ [][NextOffset]_vars

\* how many times the lock_latitude of the state went through its converter
LockDivisions(state) ==
    IF state = None THEN 0
    ELSE IF Val(state).attrs["lock_latitude"] = None THEN 0
    ELSE Val(Val(state).attrs["lock_latitude"]).e

UpdateFrame ==
    /\ LockDivisions(current_state) < MaxLockDivisions
    /\ UpdateCurrentState(FrameBatches)

\* the merge engine on attributes with converters
NextFrame == UpdateFrame

SpecFrame == Init /\ [][NextFrame]_vars

UpdatePoint == UpdateCurrentState(PointBatches)

SetPoint == \E value \in Points : SetLastPoint(value)

WsPoint == \E data \in WsPoints : ProcessWsPoint(data)

\* tracking points arriving at a device between state updates
NextPoint ==
    \/ UpdatePoint
    \/ SetPoint
    \/ WsPoint

SpecPoint == Init /\ [][NextPoint]_vars

HandleEvent == \E data \in EventData : ProcessEvent(data)

SetEvent == \E data \in EventData : SetLastEvent(TrackingEvent(data))

\* events arriving for a device, and the owner of the device setting last_event
NextEvent ==
    \/ HandleEvent
    \/ SetEvent

SpecEvent == Init /\ [][NextEvent]_vars

ReplaceAttributes == \E value \in AttributeDicts : SetAttributes(value)

\* the devices list being refreshed, and the features of the device being read
NextIdentity ==
    \/ ReplaceAttributes
    \/ ReadFeatures

SpecIdentity == Init /\ [][NextIdentity]_vars

Listen == \E args \in ListenerArgs : ListenForUpdates(args)

Message == \E contents \in Messages, outcome \in CallbackOutcomes : HandleWsMessage(contents, outcome)

ConnectionEnd == \E reason \in EndReasons : ConnectionEnds(reason)

AuthAttempt == \E result \in AuthResults : AuthAttemptEnds(result)

Sleep == \E result \in SleepResults : SleepEnds(result)

\* the connection loop of the listener, without messages
NextReconnect ==
    \/ Listen
    \/ ConnectionEnd
    \/ AuthAttempt
    \/ Sleep

SpecReconnect == Init /\ [][NextReconnect]_vars

\* the listener of an account whose device receives messages
NextListener ==
    \/ Listen
    \/ Message
    \/ ConnectionEnd
    \/ AuthAttempt
    \/ Sleep

SpecListener == Init /\ [][NextListener]_vars

Connect == \E timed \in BOOLEAN : IterateWebsockets(timed)

ReceiveFrame == \E frame \in Frames(Len(ws.received) + 1) : Receive(frame)

\* the message iterator over connections that deliver any frames
NextFrames ==
    \/ Connect
    \/ ReceiveFrame
    \/ ReceiveTimeout

SpecFrames == Init /\ [][NextFrames]_vars

Authenticate == \E access_token \in AccessTokens : AuthenticateCall(access_token)

ApplyToken == \E request \in AwaitOutcomes, data \in LoginPayloads : ApplyEnds(request, data)

FetchToken == \E result \in AwaitOutcomes, fetched \in FetchedTokens : FetchEnds(result, fetched)

\* an account that is authenticated again and again
NextAuth ==
    \/ Authenticate
    \/ ApplyToken
    \/ FetchToken

SpecAuth == Init /\ [][NextAuth]_vars

\* an account as constructed, with and without an access_token
InitRefresh ==
    /\ current_state = None
    /\ utc_offset = None
    /\ account_utc_offset = 0
    /\ control_future = None
    /\ fut = [t \in TaskIds |-> "none"]
    /\ tasks = [t \in TaskIds |-> Idle]
    /\ last = Event("init", None, "", None)
    /\ accepted = [a \in Governed |-> -1]
    /\ last_point = None
    /\ last_event = None
    /\ attributes = InitialAttributes
    /\ features = None
    /\ peer_state = InitialPeer
    /\ auth \in {[InitialAuth EXCEPT !.access_token = t] : t \in {None, Some(1)}}
    /\ ws = InitialWs
    /\ listener = InitialListener
    /\ devices = InitialDevices

\* a request that fails is answered with no listing
Refresh ==
    \E request \in ListingRequests,
       listing \in Listings :
        /\ request # "ok" => listing = <<>>
        /\ RefreshDevices(request, listing)

UpdateListed == UpdateCurrentState(ListedBatches)

\* the listing of devices refreshed while the modelled device is updated and
\* is sent commands
NextRefresh ==
    \/ Refresh
    \/ UpdateListed
    \/ RemoteCommand

SpecRefresh == InitRefresh /\ [][NextRefresh]_vars

RequestUpdates == \E order \in DeviceOrders, data \in HttpTimeData : HttpUpdates(order, data)

\* an account of two devices polled over HTTP while commands are sent to one
NextUpdates ==
    \/ RequestUpdates
    \/ RemoteCommand
    \/ Sent
    \/ SendFailed
    \/ Timeout

SpecUpdates == Init /\ [][NextUpdates]_vars

Parse == \E data \in IdPayloads : ParseDeviceId(data)

Construct == \E data \in RawStates : FromDict(data)

\* the conversions of the server's raw values
NextMapper ==
    \/ Parse
    \/ Construct

SpecMapper == Init /\ [][NextMapper]_vars

-----------------------------------------------------------------------------
(* Properties *)

\* the step taken is a call of update_current_state
UpdateStep == last'.op = "update_current_state"

\* the changed-fields mapping an event of update_current_state returned
Changed(event) == IF event.ret = None THEN EmptyDict ELSE Val(event.ret).changed

\* an attribute of the stored state, None while there is no state
Attr(state, a) == IF state = None THEN None ELSE Val(state).attrs[a]

\* C1: over any sequence of update_current_state calls the ledger entry
\* last_updated[a] of every freshness-governed attribute never decreases from
\* one state of the device to the next.
C1_LedgerNeverDecreases ==
    [][(current_state # None /\ current_state' # None) =>
         \A a \in Governed :
            Val(current_state').last_updated[a] >= Val(current_state).last_updated[a]
      ]_vars

\* C2: once a governed attribute has been accepted in a batch carrying the
\* freshness timestamp T, no later batch that supplies a freshness timestamp
\* below T changes the attribute's value.
C2_NoRollbackByDelayedData ==
    [][UpdateStep =>
         \A a \in Governed :
            LET T == Get(last'.args, DEFAULT_TIMESTAMP_SOURCE)
            IN  (T # None /\ Val(T) < accepted[a]) =>
                    Attr(current_state', a) = Attr(current_state, a)
      ]_vars

\* a batch made of governed attributes and a state_timestamp_utc that is older
\* than the one of the state
StaleBatch(state, b) ==
    /\ state # None
    /\ DOMAIN b \subseteq Governed \cup {DEFAULT_TIMESTAMP_SOURCE}
    /\ DOMAIN b \cap Governed # {}
    /\ Get(b, DEFAULT_TIMESTAMP_SOURCE) # None
    /\ Attr(state, DEFAULT_TIMESTAMP_SOURCE) # None
    /\ Val(b[DEFAULT_TIMESTAMP_SOURCE]) < Val(Attr(state, DEFAULT_TIMESTAMP_SOURCE))

\* C3: a batch of governed attributes whose state_timestamp_utc is older than
\* the state's leaves the state unchanged and returns an empty changed-fields
\* mapping.
C3_StaleRejection ==
    [][(UpdateStep /\ StaleBatch(current_state, last'.args)) =>
         /\ last'.raised = ""
         /\ current_state' = current_state
         /\ DOMAIN Changed(last') = {}
      ]_vars

\* C4: the same batch applied twice in a row: the second application returns
\* an empty changed-fields mapping and leaves the state as the first left it.
C4_DuplicateDeliveryIdempotent ==
    [][(/\ UpdateStep
        /\ last.op = "update_current_state"
        /\ last'.args = last.args
        /\ last.raised = "") =>
         /\ last'.raised = ""
         /\ DOMAIN Changed(last') = {}
         /\ current_state' = current_state
      ]_vars

\* C5: a batch with a key that is no attribute of the schema makes
\* update_current_state raise and leaves the state, the ledger, the stored UTC
\* offset and the control future as they were.
C5_UnknownAttributeNoMutation ==
    [][(UpdateStep /\ DOMAIN last'.args \ AttrNames # {}) =>
         /\ last'.raised # ""
         /\ current_state' = current_state
         /\ utc_offset' = utc_offset
         /\ control_future' = control_future
         /\ fut' = fut
      ]_vars

\* a command is awaiting confirmation: the slot holds a future that is not done
PendingSlot == control_future # None /\ fut[Val(control_future)] = "pending"

\* the tasks inside async_remote_command whose command awaits confirmation
Awaiting ==
    {t \in TaskIds : /\ tasks[t].pc \in {"sending", "waiting"}
                      /\ tasks[t].ensure_complete
                      /\ fut[t] = "pending"}

\* the step taken is the entry of a task into async_remote_command
CallStep == last'.op = "async_remote_command"

\* C6: while a tracked command is pending, every other async_remote_command
\* call fails with "device is busy", sends nothing and leaves the pending
\* future alone; at most one command per device ever awaits confirmation.
C6_SingleInFlightCommand ==
    /\ [][(CallStep /\ PendingSlot) =>
            /\ last'.raised = "device is busy executing command"
            /\ UNCHANGED <<tasks, fut, control_future>>
         ]_vars
    /\ [](Cardinality(Awaiting) <= 1)

\* a second caller was turned away while the first one awaits its confirmation
C6_Witness ==
    /\ last.op = "async_remote_command"
    /\ last.raised = "device is busy executing command"
    /\ \E t \in TaskIds \ {last.args} : t \in Awaiting /\ tasks[t].pc = "waiting"

\* C7: when a pending command leaves PENDING - by success, by a failure result
\* or by the expiry of control_timeout - the device is idle and the next
\* async_remote_command on it is accepted; on a timeout the caller gets
\* TimeoutError and its command is not sent again.
C7_SlotRelease ==
    [][/\ \A t \in TaskIds :
            (fut[t] = "pending" /\ fut'[t] # "pending") =>
                /\ fut'[t] \in {"result", "exception", "cancelled"}
                /\ ~PendingSlot'
       /\ (CallStep /\ current_state # None /\ ~PendingSlot) =>
            /\ last'.raised = ""
            /\ tasks'[last'.args].pc = "sending"
       /\ \A t \in TaskIds :
            (fut[t] = "pending" /\ fut'[t] = "cancelled") =>
                /\ last' = Event("command_done", t, "TimeoutError", None)
                /\ tasks'[t] = Idle
      ]_vars

\* command B was accepted after command A had timed out
C7_Witness ==
    /\ last.op = "async_remote_command"
    /\ last.args = "B"
    /\ last.raised = ""
    /\ tasks["B"].ensure_complete
    /\ fut["A"] = "cancelled"
    /\ control_future = Some("B")

\* update_current_state applied something and stored the new state
StoreStep == UpdateStep /\ last'.raised = "" /\ DOMAIN Changed(last') # {}

CommandNewer(old_state, new_state) ==
    LET o == Attr(old_state, "command_timestamp_utc")
        n == Attr(new_state, "command_timestamp_utc")
    IN  o # None /\ n # None /\ Val(o) < Val(n)

\* C8: when a state is stored while a command is pending, the command is
\* resolved successfully if and only if there was no state before or the new
\* command_timestamp_utc is strictly greater than the previous one; otherwise
\* the command stays pending.
C8_ImplicitConfirmation ==
    [][(StoreStep /\ PendingSlot) =>
         IF current_state = None \/ CommandNewer(current_state, current_state')
         THEN /\ fut'[Val(control_future)] = "result"
              /\ control_future' = None
         ELSE UNCHANGED <<fut, control_future>>
      ]_vars

\* a state update with a newer command timestamp confirmed the command a task
\* is still waiting for
C8_Witness ==
    /\ last.op = "update_current_state"
    /\ last.raised = ""
    /\ control_future = None
    /\ \E t \in TaskIds : tasks[t].pc = "waiting" /\ fut[t] = "result"

\* a batch of known attributes of which one at least is not freshness-governed:
\* the merge applies that one whatever the ledger holds
AppliesSomething(b) ==
    /\ DOMAIN b \subseteq AttrNames
    /\ DOMAIN b \ Governed # {}

\* C9: whenever update_current_state applies at least one attribute it
\* completes, and the device's state afterwards is the returned state - a
\* command pending or not, command_timestamp_utc null or not.
C9_UpdateStoresResult ==
    [][(UpdateStep /\ AppliesSomething(last'.args)) =>
         /\ last'.raised = ""
         /\ current_state' = Some(Val(last'.ret).state)
      ]_vars

\* PyRoundDiv stated on its result: off is the multiple of 60 nearest to d, the
\* even multiple when d lies halfway between two
NearestMinute(off, d) ==
    /\ off % 60 = 0
    /\ 2 * Abs(off - d) <= 60
    /\ 2 * Abs(off - d) = 60 => (off \div 60) % 2 = 0

Skew(b, prefix) == Val(b[non_utc_key(prefix)]) - Val(b[utc_key(prefix)])

Both(b, prefix) ==
    /\ non_utc_key(prefix) \in DOMAIN b /\ b[non_utc_key(prefix)] # None
    /\ utc_key(prefix) \in DOMAIN b /\ b[utc_key(prefix)] # None

\* C10: after update_current_state the device's UTC offset is
\* round((local - utc) / 60) * 60 of the online family when the batch carries
\* both its halves, else of the state family when it carries both of that one,
\* and the stored offset is unchanged when neither family is complete.
C10_OffsetDerivation ==
    [][UpdateStep =>
         LET b   == last'.args
             off == utc_offset_property(utc_offset', account_utc_offset')
         IN  IF Both(b, "online") THEN NearestMinute(off, Skew(b, "online"))
             ELSE IF Both(b, "state") THEN NearestMinute(off, Skew(b, "state"))
             ELSE utc_offset' = utc_offset
      ]_vars

\* a batch with both families complete and different skews: the online one
\* (45 s, one minute) decided, not the state one (-90 s, minus two minutes)
C10_Witness ==
    /\ last.op = "update_current_state"
    /\ Both(last.args, "online") /\ Skew(last.args, "online") = 45
    /\ Both(last.args, "state") /\ Skew(last.args, "state") = -90
    /\ utc_offset = Some(60)

\* the batch carries exactly this half of a timestamp pair
OnlyHalf(b, present, missing) ==
    /\ Get(b, present) # None
    /\ Get(b, missing) = None

\* the batch carries neither half of the family
NoHalf(b, prefix) ==
    /\ non_utc_key(prefix) \notin DOMAIN b
    /\ utc_key(prefix) \notin DOMAIN b

\* C11: for the online and the state family, a batch with exactly one half of
\* the pair gets the other half as local = utc + offset or utc = local - offset,
\* the offset being the one in force after the batch (derived from it, else the
\* device's stored offset, else the account's); a family with neither half is
\* not in the changed-fields mapping and keeps its values in the state.
C11_BackfillRoundTrip ==
    [][UpdateStep =>
         LET b   == last'.args
             off == utc_offset_property(utc_offset', account_utc_offset')
         IN  /\ last'.raised = ""
             /\ \A p \in {"online", "state"} :
                  /\ OnlyHalf(b, utc_key(p), non_utc_key(p)) =>
                        /\ Get(Changed(last'), non_utc_key(p)) = Some(Val(b[utc_key(p)]) + off)
                        /\ Attr(current_state', non_utc_key(p)) = Some(Val(b[utc_key(p)]) + off)
                        /\ Attr(current_state', utc_key(p)) = b[utc_key(p)]
                  /\ OnlyHalf(b, non_utc_key(p), utc_key(p)) =>
                        /\ Get(Changed(last'), utc_key(p)) = Some(Val(b[non_utc_key(p)]) - off)
                        /\ Attr(current_state', utc_key(p)) = Some(Val(b[non_utc_key(p)]) - off)
                        /\ Attr(current_state', non_utc_key(p)) = b[non_utc_key(p)]
                  /\ NoHalf(b, p) =>
                        /\ non_utc_key(p) \notin DOMAIN Changed(last')
                        /\ utc_key(p) \notin DOMAIN Changed(last')
                        /\ Attr(current_state', non_utc_key(p)) = Attr(current_state, non_utc_key(p))
                        /\ Attr(current_state', utc_key(p)) = Attr(current_state, utc_key(p))
      ]_vars

\* after an earlier batch had set the device's offset to minus two minutes, a
\* batch with the local state timestamp alone got its UTC half, and a batch with
\* the UTC online timestamp alone would get its local half
C11_Witness ==
    /\ last.op = "update_current_state"
    /\ OnlyHalf(last.args, "state_timestamp", "state_timestamp_utc")
    /\ NoHalf(last.args, "online")
    /\ utc_offset = Some(-120)
    /\ Attr(current_state, "state_timestamp") = Some(2000)
    /\ Attr(current_state, "state_timestamp_utc") = Some(2120)

\* the name of the two halves of each timestamp family of the specification
FamilyKeys ==
    [ online   |-> [local |-> "online_timestamp",   utc |-> "online_timestamp_utc"],
      state    |-> [local |-> "state_timestamp",    utc |-> "state_timestamp_utc"],
      settings |-> [local |-> "settings_timestamp", utc |-> "settings_timestamp_utc"],
      command  |-> [local |-> "command_timestamp",  utc |-> "command_timestamp_utc"] ]

\* C12: for each of the four families online, state, settings and command, a
\* batch with the UTC half alone gets the local half back-filled as
\* utc + offset.
C12_BackfillAllFamilies ==
    [][UpdateStep =>
         LET b   == last'.args
             off == utc_offset_property(utc_offset', account_utc_offset')
         IN  \A f \in DOMAIN FamilyKeys :
                OnlyHalf(b, FamilyKeys[f].utc, FamilyKeys[f].local) =>
                    Get(Changed(last'), FamilyKeys[f].local) = Some(Val(b[FamilyKeys[f].utc]) + off)
      ]_vars

\* evolve_args rejects attribute k of batch b as stale: k is freshness-governed,
\* the batch carries its timestamp, and the ledger holds a greater one
Stale(state, b, k) ==
    /\ k \in Governed
    /\ Get(b, DEFAULT_TIMESTAMP_SOURCE) # None
    /\ Val(state).last_updated[k] > Val(b[DEFAULT_TIMESTAMP_SOURCE])

\* C13: when no attribute of a batch is applied to an existing state,
\* update_current_state raises nothing, returns the existing state and an empty
\* changed-fields mapping, and leaves the stored state, the UTC offset and the
\* control future as they were.
C13_EmptyMergeNoOp ==
    [][(/\ UpdateStep
        /\ current_state # None
        /\ DOMAIN last'.args \subseteq AttrNames
        /\ \A k \in DOMAIN last'.args : Stale(current_state, last'.args, k)) =>
         /\ last'.raised = ""
         /\ Val(last'.ret).state = Val(current_state)
         /\ DOMAIN Changed(last') = {}
         /\ UNCHANGED <<current_state, utc_offset, control_future, fut>>
      ]_vars

\* a call that applied nothing was made while a command was awaiting its
\* confirmation on a state without a command timestamp
C13_Witness ==
    /\ last.op = "update_current_state"
    /\ DOMAIN last.args = {}
    /\ last.raised = ""
    /\ DOMAIN Changed(last) = {}
    /\ PendingSlot
    /\ Attr(current_state, "command_timestamp_utc") = None

\* the keys update_current_state may add to a batch: the back-filled halves
BackfilledKeys ==
    {"online_timestamp", "online_timestamp_utc", "state_timestamp", "state_timestamp_utc"}

\* attribute k of the batch was applied: it is in the changed-fields mapping
\* with the batch's value, and the new state holds that value, converted
Applied(k) ==
    /\ k \in DOMAIN Changed(last')
    /\ Changed(last')[k] = last'.args[k]
    /\ Attr(current_state', k) = field_conv(k, last'.args[k])

\* C14: in a merge into an existing state every attribute of the batch that is
\* not rejected as stale is applied, whether or not others of the batch are
\* rejected, and the changed-fields mapping holds the applied attributes (and
\* the back-filled timestamps) and none of the rejected ones.
C14_PerAttributeIndependence ==
    [][(UpdateStep /\ current_state # None /\ DOMAIN last'.args \subseteq AttrNames) =>
         /\ last'.raised = ""
         /\ \A k \in DOMAIN last'.args :
              IF Stale(current_state, last'.args, k)
              THEN k \notin DOMAIN Changed(last')
              ELSE Applied(k)
         /\ DOMAIN Changed(last') \ DOMAIN last'.args \subseteq BackfilledKeys
      ]_vars

\* a batch whose speed and lock_latitude were rejected as stale had its
\* timestamp applied
C14_Witness ==
    /\ last.op = "update_current_state"
    /\ {"speed", "lock_latitude", DEFAULT_TIMESTAMP_SOURCE} \subseteq DOMAIN last.args
    /\ "speed" \notin DOMAIN Changed(last)
    /\ "lock_latitude" \notin DOMAIN Changed(last)
    /\ DEFAULT_TIMESTAMP_SOURCE \in DOMAIN Changed(last)
    /\ Attr(current_state, DEFAULT_TIMESTAMP_SOURCE) = last.args[DEFAULT_TIMESTAMP_SOURCE]
    /\ Attr(current_state, "speed") # last.args["speed"]

\* the batch supplies no freshness timestamp: state_timestamp_utc is absent or
\* null, and there is no local state timestamp to derive it from
Untimestamped(b) ==
    /\ Get(b, DEFAULT_TIMESTAMP_SOURCE) = None
    /\ Get(b, "state_timestamp") = None

\* C15: in a merge into an existing state a governed attribute of a batch whose
\* state_timestamp_utc is absent or null is applied whatever the ledger holds,
\* and an attribute without a freshness source is applied.
C15_UntimestampedUpdatesWin ==
    [][(UpdateStep /\ current_state # None /\ DOMAIN last'.args \subseteq AttrNames) =>
         \A k \in DOMAIN last'.args :
            (k \notin Governed \/ Untimestamped(last'.args)) => Applied(k)
      ]_vars

\* a batch with a speed and no timestamp was applied to a state whose ledger
\* holds the greatest timestamp
C15_Witness ==
    /\ last.op = "update_current_state"
    /\ DOMAIN last.args = {"speed"}
    /\ current_state # None
    /\ Val(current_state).last_updated["speed"] = MaxTime
    /\ Attr(current_state, "speed") = last.args["speed"]
    /\ DOMAIN Changed(last) = {"speed"}

\* C16: a merge leaves every attribute that is not in the changed-fields
\* mapping with the value it had, lock_latitude included.
C16_MergeFrame ==
    [][(UpdateStep /\ current_state # None /\ last'.raised = "") =>
         \A a \in AttrNames \ DOMAIN Changed(last') :
            Attr(current_state', a) = Attr(current_state, a)
      ]_vars

\* C17: a merge sets the ledger entry of an attribute to the batch's
\* state_timestamp_utc when the attribute was applied and the batch carries that
\* timestamp, and leaves the entry of every other attribute unchanged.
C17_LedgerFrame ==
    [][(UpdateStep /\ current_state # None /\ last'.raised = "") =>
         \A a \in Governed :
            Val(current_state').last_updated[a] =
                IF a \in DOMAIN Changed(last') /\ Get(last'.args, DEFAULT_TIMESTAMP_SOURCE) # None
                THEN Val(last'.args[DEFAULT_TIMESTAMP_SOURCE])
                ELSE Val(current_state).last_updated[a]
      ]_vars

PointStep ==
    \/ last'.op = "last_point" /\ last'.args.device_id = device_id
    \/ last'.op = "_process_ws_point"

\* the timestamp and the latitude of the point an ingestion event is about
PointTimestamp(event) ==
    IF event.op = "last_point" THEN event.args.timestamp ELSE Val(event.args.dtime)

PointLatitude(event) ==
    IF event.op = "last_point" THEN event.args.latitude ELSE event.args.x

\* C19: when a point is ingested into a device whose state has a state
\* timestamp, the point's position is folded into the state if its timestamp is
\* greater than or equal to the state timestamp, and the state is left alone if
\* it is older.
C19_PointFoldCondition ==
    [][(PointStep /\ current_state # None /\ Attr(current_state, "state_timestamp") # None) =>
         IF PointTimestamp(last') >= Val(Attr(current_state, "state_timestamp"))
         THEN Attr(current_state', "latitude") = PointLatitude(last')
         ELSE current_state' = current_state
      ]_vars

\* the point the setter was given or the handler built
IngestedPoint(event) ==
    IF event.op = "last_point" THEN event.args
    ELSE ws_tracking_point(event.args, Val(event.args.dtime))

\* C20: after a point of the device was ingested, by the setter or by the
\* WebSocket point handler, last_point is that point, with or without a state,
\* whether or not the state timestamp is known.
C20_LastPointRecorded ==
    [][PointStep => last_point' = Some(IngestedPoint(last'))]_vars

\* the step taken is the processing of an event for the device
EventStep == last'.op = "_process_http_event"

\* C21: after an event was processed for the device, last_event is an event,
\* not null and not anything else, and its timestamp is not below the one of
\* the event just processed.
C21_MostRecentEventRetained ==
    [][EventStep =>
         /\ last'.raised = ""
         /\ last_event' # None
         /\ ~Val(last_event').class
         /\ Val(Val(last_event').timestamp) >= Val(last'.args.dtime)
      ]_vars

\* the step taken is the processing of a command-result notification
WsCommandStep == last'.op = "_process_ws_command"

\* C22: a command-result notification resolves the pending command, as a
\* success when the result code is 0 and as a failure when it is anything else
\* or cannot be decoded; the caller awaiting a failed command gets an error; a
\* notification that finds no pending command raises nothing and changes
\* nothing.
C22_ExplicitResultDelivery ==
    [][/\ WsCommandStep =>
            /\ last'.raised = ""
            /\ IF PendingSlot
               THEN /\ fut'[Val(control_future)] =
                          IF last'.args.result = Some(0) THEN "result" ELSE "exception"
                    /\ control_future' = None
               ELSE UNCHANGED <<fut, control_future>>
            /\ UNCHANGED <<current_state, utc_offset, tasks>>
       /\ \A t \in TaskIds :
            (tasks[t].pc = "waiting" /\ tasks'[t].pc = "idle" /\ fut[t] = "exception") =>
                last'.raised = "PandoraOnlineException"
      ]_vars

\* a notification with a result that could not be decoded failed the command
\* a caller is waiting for
C22_Witness ==
    /\ last.op = "_process_ws_command"
    /\ last.args.result = None
    /\ control_future = None
    /\ \E t \in TaskIds : tasks[t].pc = "waiting" /\ fut[t] = "exception"

\* a future that is done
Done(f) == f \in {"result", "exception", "cancelled"}

\* the step taken is a direct call of release_control_lock
ReleaseStep == last'.op = "release_control_lock"

\* C23: a future that is done stays as it is (the task's next command makes a
\* new one), and release_control_lock called when no command is pending raises
\* and leaves the slot and the futures unchanged.
C23_SingleAssignment ==
    [][/\ \A t \in TaskIds :
            Done(fut[t]) =>
                \/ fut'[t] = fut[t]
                \/ CallStep /\ last'.args = t /\ fut'[t] = "pending"
       /\ (ReleaseStep /\ ~PendingSlot) =>
            /\ last'.raised # ""
            /\ UNCHANGED <<control_future, fut>>
       /\ (ReleaseStep /\ PendingSlot) =>
            /\ last'.raised = ""
            /\ Done(fut'[Val(control_future)])
      ]_vars

\* release_control_lock was called on a slot whose future the timeout had
\* cancelled, and raised
C23_Witness ==
    /\ last.op = "release_control_lock"
    /\ last.raised = "InvalidStateError"
    /\ control_future # None
    /\ fut[Val(control_future)] = "cancelled"

\* the step taken is the failure of the dispatch of a tracked command: the
\* account's request raised and the exception left async_remote_command
DispatchFailedStep ==
    /\ last'.op = "command_sent"
    /\ last'.raised # ""
    /\ tasks[last'.args].ensure_complete

\* C30: when the dispatch of a tracked command fails, the device is not busy
\* once async_remote_command has raised.
C30_FailedDispatchReleases ==
    [][DispatchFailedStep => ~PendingSlot']_vars

\* the step taken is an assignment to device.attributes
AttributesStep == last'.op = "attributes"

\* the dictionary names another device
ForeignId(value) ==
    /\ "id" \in DOMAIN value
    /\ value.id # None
    /\ Val(value.id) # device_id

\* C25: assigning an attribute dictionary whose id is not the device's raises
\* and leaves the attributes and the cached features as they were; device_id
\* is the same in every state.
C25_AttributeReplacementGuard ==
    /\ [][(AttributesStep /\ ForeignId(last'.args)) =>
            /\ last'.raised # ""
            /\ UNCHANGED <<attributes, features>>
         ]_vars
    /\ [](device_id_property(attributes) = device_id)

\* the dictionary of another device was refused while the features of the
\* device were cached
C25_Witness ==
    /\ last.op = "attributes"
    /\ ForeignId(last.args)
    /\ last.raised = "ValueError"
    /\ features # None
    /\ attributes # InitialAttributes

\* the step taken is a call of parse_device_id
ParseStep == last'.op = "parse_device_id"

\* the identifier of a payload: the value under dev_id, else the one under id
PayloadId(data) == IF "dev_id" \in DOMAIN data THEN data.dev_id ELSE data.id

\* a raw value that is zero or empty: null, 0, "0" or ""
ZeroOrEmpty(x) == x.t \in {"null", "empty"} \/ (x.t \in {"int", "numeral"} /\ x.n = 0)

\* C24: parse_device_id returns the identifier of a payload that has it under
\* dev_id or id as an integer, raises when the identifier is zero or empty or
\* when neither key is present, and never returns 0.
C24_ParseDeviceId ==
    [][ParseStep =>
         LET data == last'.args
         IN  IF DOMAIN data \cap {"dev_id", "id"} = {} \/ ZeroOrEmpty(PayloadId(data))
             THEN last'.raised # ""
             ELSE last'.raised = "" => (last'.ret = Some(PayloadId(data).n) /\ last'.ret # Some(0))
      ]_vars

\* the step taken is a construction of a CurrentState from a raw dictionary
FromDictStep == last'.op = "from_dict"

\* the required identifier is in the raw dictionary and is a number
RequiredPresent(data) ==
    DOMAIN data \cap {"dev_id", "id"} # {} /\ PayloadId(data).t = "int"

\* C28: constructing a CurrentState from a raw dictionary that has the
\* required identifier never raises, whatever the values of the optional
\* attributes; an optional attribute whose value is malformed is null.
C28_MapperNeverRaisesOnOptional ==
    [][(FromDictStep /\ RequiredPresent(last'.args)) =>
         /\ last'.raised = ""
         /\ \A k \in {"engine_rpm", "bit_state_1", "lock_x"} :
              (k \in DOMAIN last'.args /\ last'.args[k].t = "word") =>
                 LET a == CASE k = "engine_rpm" -> "engine_rpm"
                            [] k = "bit_state_1" -> "bit_state"
                            [] k = "lock_x" -> "lock_latitude"
                 IN  Val(last'.ret)[a] = None
      ]_vars

\* the scalar attributes of the raw dictionary are well-formed
ScalarsWellFormed(data) ==
    \A k \in DOMAIN data \cap {"engine_rpm", "bit_state_1", "lock_x"} : data[k].t # "word"

\* C29: a list attribute whose source key is absent or null is the empty
\* sequence; otherwise it has one converted element for each element of the
\* source.
C29_ListConversion ==
    [][(FromDictStep /\ RequiredPresent(last'.args) /\ ScalarsWellFormed(last'.args)) =>
         /\ last'.raised = ""
         /\ Len(Val(last'.ret).heater_errors) =
               IF "heater_errors" \in DOMAIN last'.args /\ last'.args.heater_errors.t = "list"
               THEN last'.args.heater_errors.n ELSE 0
      ]_vars

\* the step taken is a call of async_request_updates
UpdatesStep == last'.op = "async_request_updates"

\* the peer after update_current_state with its own data of the response
PeerUpdated(data) ==
    LET r == update_current_state(peer_state.state, peer_state.utc_offset,
                                  account_utc_offset, FALSE,
                                  http_time_args(data[peer_id]))
    IN  [state |-> r.state, utc_offset |-> r.stored]

\* C26: when an updates response has data for several devices, the update of
\* each device is applied to its state even when processing the update of
\* another device of the response raises.
C26_ErrorsScopedToDevice ==
    [][UpdatesStep => peer_state' = PeerUpdated(last'.args.data)]_vars

\* the place of a step in the order of async_authenticate
StepRank(kind) ==
    CASE kind = "apply_provided" -> 1
      [] kind = "apply_existing" -> 2
      [] kind = "fetch"          -> 3
      [] kind = "apply_fetched"  -> 4

\* the kinds of the steps performed by the current or the last call
StepKinds == {auth.steps[i].kind : i \in DOMAIN auth.steps}

\* C27: async_authenticate performs at most four steps in the order apply the
\* provided token, apply the existing token (only when it is not empty and
\* differs from the provided one), fetch, apply the fetched token; it returns
\* at the first successful apply and performs nothing after it, tries at most
\* three distinct tokens, raises when the fetch or the last apply fails, and a
\* cancelled step ends it as cancelled, not as a failed step.
C27_AuthenticationSequence ==
    LET steps == auth.steps
        n     == Len(steps)
    IN  /\ n <= 4
        /\ \A i, j \in 1..n : i < j => StepRank(steps[i].kind) < StepRank(steps[j].kind)
        /\ \A i \in 1..n :
              /\ steps[i].kind = "apply_provided" =>
                    steps[i].token = auth.provided /\ NonEmpty(auth.provided)
              /\ steps[i].kind = "apply_existing" =>
                    /\ steps[i].token = auth.existing
                    /\ NonEmpty(auth.existing)
                    /\ auth.existing # auth.provided
              /\ steps[i].kind = "fetch" =>
                    /\ NonEmpty(auth.provided) => "apply_provided" \in StepKinds
                    /\ (NonEmpty(auth.existing) /\ auth.existing # auth.provided)
                          => "apply_existing" \in StepKinds
              /\ steps[i].kind = "apply_fetched" => "fetch" \in StepKinds
              \* a step that is followed by another one failed, and was neither
              \* the fetch failing nor the last apply
              /\ i < n => /\ steps[i].result = IF steps[i].kind = "fetch" THEN "ok" ELSE "error"
                          /\ steps[i].kind # "apply_fetched"
        /\ Cardinality({steps[i].token : i \in {j \in 1..n : steps[j].kind # "fetch"}}) <= 3
        /\ auth.outcome = "returned" =>
              /\ n > 0 /\ steps[n].result = "ok" /\ steps[n].kind # "fetch"
              /\ auth.access_token = steps[n].token
        /\ auth.outcome = "raised" =>
              n > 0 /\ steps[n].result = "error" /\ steps[n].kind \in {"fetch", "apply_fetched"}
        /\ auth.outcome = "cancelled" => n > 0 /\ steps[n].result = "cancelled"
        /\ auth.outcome = "running" =>
              /\ auth.pc # "idle"
              /\ n > 0 => steps[n].result = IF steps[n].kind = "fetch" THEN "ok" ELSE "error"
        /\ (n > 0 /\ steps[n].result = "cancelled") => auth.outcome = "cancelled"
        /\ (n > 0 /\ steps[n].result = "ok" /\ steps[n].kind # "fetch") => auth.outcome = "returned"
        /\ (n > 0 /\ steps[n].result = "error" /\ steps[n].kind \in {"fetch", "apply_fetched"})
              => auth.outcome = "raised"

\* a call that went through all four steps and returned: the provided and the
\* existing token were rejected, the fetched one accepted
C27_Witness ==
    /\ auth.outcome = "returned"
    /\ Len(auth.steps) = 4
    /\ auth.steps[2].kind = "apply_existing"
    /\ auth.steps[4].result = "ok"

\* C31: a command-result notification whose command id is not the id of the
\* command pending on the device does not resolve the pending command.
C31_OnlyOwnResultResolves ==
    [][(WsCommandStep /\ PendingSlot /\ last'.args.command # Val(control_future)) =>
          UNCHANGED <<fut, control_future>>
      ]_vars

\* the step taken is the return of the account's request that sent a command
SentStep == last'.op = "command_sent" /\ last'.raised = ""

\* C32: async_remote_command with ensure_complete=False creates no pending
\* future and leaves the device idle, and returns once the request is sent, so
\* such commands can follow one another; every call is rejected as busy while
\* a tracked command is pending and with "state update is required" while
\* the device has no state.
C32_UntrackedCommands ==
    [][/\ (CallStep /\ last'.raised = "" /\ ~tasks'[last'.args].ensure_complete) =>
            /\ UNCHANGED <<fut, control_future>>
            /\ ~PendingSlot'
       /\ (SentStep /\ ~tasks[last'.args].ensure_complete) =>
            /\ tasks'[last'.args] = Idle
            /\ last'.ret = Some("returned")
            /\ UNCHANGED <<fut, control_future>>
       /\ CallStep =>
            last'.raised = IF current_state = None THEN "state update is required"
                           ELSE IF PendingSlot THEN "device is busy executing command"
                           ELSE ""
      ]_vars

\* two untracked commands were dispatched one after the other, both requests
\* still under way, and the device has never been busy
C32_Witness ==
    /\ \A t \in TaskIds : tasks[t].pc = "sending" /\ ~tasks[t].ensure_complete
    /\ control_future = None
    /\ last.op = "async_remote_command"

\* a text frame whose payload is a JSON object
WellFormed(frame) == frame.type = "text" /\ frame.json = "object"

\* the ids of the well-formed frames among the frames, in order of receipt
RECURSIVE WellFormedIds(_)
WellFormedIds(frames) ==
    IF frames = <<>> THEN <<>>
    ELSE IF WellFormed(Head(frames))
    THEN <<Head(frames).id>> \o WellFormedIds(Tail(frames))
    ELSE WellFormedIds(Tail(frames))

\* C33: the messages yielded on a connection are the well-formed JSON-object
\* text frames received on it, each once and in order of receipt; a text frame
\* that is not valid JSON or not an object yields nothing.
C33_MessageDelivery == ws.yielded = WellFormedIds(ws.received)

\* a step of _handle_ws_message
HandlerStep == listener.pc = "connected" /\ last'.op = "_handle_ws_message"

\* the step handles a message of the given type with "type" and "data"
HandlesType(type_) ==
    /\ HandlerStep
    /\ {"type", "data"} \subseteq DOMAIN last'.args
    /\ last'.args.type = type_

\* the data of the handled message names a registered device
OfRegisteredDevice ==
    /\ parse_device_id(last'.args.data).raised = ""
    /\ Val(parse_device_id(last'.args.data).ret) \in DOMAIN devices

\* C34: for every update-settings message of a registered device the
\* update_settings_callback is invoked when and only when it was supplied,
\* whichever other callbacks were supplied.
C34_SettingsCallbackDispatch ==
    [][(HandlesType("update-settings") /\ OfRegisteredDevice) =>
           ((Val(last'.ret).invoked = "update_settings_callback")
               <=> ("update_settings_callback" \in listener.args.callbacks))]_vars

\* C35: an exception raised while a message is processed or raised by a
\* callback, other than cancellation, is logged and leaves the listener as it
\* was: not stopped, no new connection.
C35_ListenerFaultIsolation ==
    [][HandlerStep =>
           /\ last'.raised \in {"", "CancelledError"}
           /\ last'.raised = "" => listener'.pc = "connected"
           /\ (last'.raised = "" /\ Val(last'.ret).logged \notin {"", "callback"})
                  => listener' = listener]_vars

\* the handled state message takes the device from not online to online
GoesOnline ==
    /\ HandlesType("state")
    /\ OfRegisteredDevice
    /\ ~is_online_property(current_state)
    /\ is_online_property(current_state')

\* C37: with reconnect_on_device_online, a state message that takes the
\* device from not online to online has the state callback invoked, when one
\* was supplied, and then, unless the callback is cancelled, a new connection
\* opened; any other state message leaves the connection as it is.
C37_ReconnectOnDeviceOnline ==
    [][HandlesType("state") =>
           IF GoesOnline /\ listener.args.reconnect_on_device_online
           THEN /\ "state_callback" \in listener.args.callbacks
                      => Val(last'.ret).invoked = "state_callback"
                /\ last'.raised = "" =>
                      listener' = Reconnected(listener)
           ELSE listener'.connections = listener.connections]_vars

\* the exceptions that leave async_listen_websockets or _handle_ws_message
ListenerExceptions ==
    (EndReasons \ {"closed"}) \cup AuthResults \cup SleepResults
        \cup {"WS closed prematurely", "KeyError", "TypeError"}

\* C38: async_listen_for_updates never returns: the message handler returns
\* only True (keep running) or None (restart), and the listener ends only by
\* an exception or a cancellation.
C38_ListenerNeverReturns ==
    /\ listener.outcome # "returned"
    /\ (last.op = "_handle_ws_message" /\ last.raised = "")
           => Val(last.ret).response \in {"True", "None"}
    /\ listener.pc = "ended" => listener.outcome \in ListenerExceptions \ {"ok"}

\* the handler returned None and the loop opened a second connection
C38_Witness ==
    /\ last.op = "_handle_ws_message"
    /\ last.raised = ""
    /\ Val(last.ret).response = "None"
    /\ listener.pc = "connected"
    /\ listener.connections = 2

\* the iteration over the connection ended in this step
EndStep == listener.pc = "connected" /\ last'.op = "connection_ended"

\* the token check or the authentication of _do_ws_auto_auth ended in this step
AuthStepEnded ==
    listener.pc \in {"checking", "authenticating"} /\ last'.op = "_do_ws_auto_auth"

\* a pause of the connection loop ended in this step
SleepStep == listener.pc \in {"pausing", "sleeping"} /\ last'.op = "sleep"

\* C36: with auto_restart=False the end of the connection raises to the
\* caller, the known error or "WS closed prematurely" on a clean close; with
\* auto_restart=True and auto_reauth=True a new connection is opened only by
\* a token check or an authentication that succeeded, OSError and
\* TimeoutError of either are followed by a pause and a new check, an
\* AuthenticationError of the authentication ends the listener, and a
\* cancellation ends it wherever it arrives.
C36_ReconnectProtocol ==
    [][/\ (EndStep /\ ~listener.args.auto_restart) =>
              /\ listener'.pc = "ended"
              /\ listener'.outcome = IF last'.args = "closed"
                                     THEN "WS closed prematurely" ELSE last'.args
       /\ (listener.args # None /\ listener.args.auto_restart
              /\ listener.args.auto_reauth
              /\ listener'.connections > listener.connections) =>
              /\ AuthStepEnded
              /\ last'.args = "ok"
       /\ (AuthStepEnded /\ last'.args \in {"OSError", "TimeoutError"}) =>
              listener'.pc = "pausing"
       /\ (SleepStep /\ listener.pc = "pausing" /\ last'.args = "ok") =>
              listener'.pc = "checking"
       /\ (AuthStepEnded /\ last'.args = "AuthenticationError") =>
              IF listener.pc = "checking" THEN listener'.pc = "authenticating"
              ELSE listener'.pc = "ended" /\ listener'.outcome = "AuthenticationError"
       /\ ((EndStep \/ AuthStepEnded \/ SleepStep) /\ last'.args = "CancelledError") =>
              listener'.pc = "ended" /\ listener'.outcome = "CancelledError"
      ]_vars

\* with auto_restart and auto_reauth, a token check or an authentication
\* succeeded after the connection had ended, and a second connection is open
C36_Witness ==
    /\ listener.args # None
    /\ listener.args.auto_restart
    /\ listener.args.auto_reauth
    /\ last.op = "_do_ws_auto_auth"
    /\ last.args = "ok"
    /\ listener.pc = "connected"
    /\ listener.connections = 2

\* an awaited async_apply_access_token ended in this step
ApplyStep ==
    /\ auth.pc \in {"apply_provided", "apply_existing", "apply_fetched"}
    /\ Len(auth'.steps) = Len(auth.steps) + 1

\* C39: access_token and user_id are set together, by an
\* async_apply_access_token whose login request succeeded with a user id that
\* int() converts, and by nothing else; an apply that fails leaves both as
\* they were, and when async_authenticate has raised or was cancelled the
\* account holds the token it held when the call began.
C39_CredentialsChangeOnSuccess ==
    [][LET n == Len(auth'.steps)
       IN  /\ (auth'.access_token # auth.access_token \/ auth'.user_id # auth.user_id) =>
                  /\ ApplyStep
                  /\ auth'.steps[n].result = "ok"
           /\ (ApplyStep /\ auth'.steps[n].result = "ok") =>
                  /\ auth'.access_token = auth.token
                  /\ auth'.user_id # None
           /\ (ApplyStep /\ auth'.steps[n].result # "ok") =>
                  /\ auth'.access_token = auth.access_token
                  /\ auth'.user_id = auth.user_id
           /\ auth'.outcome \in {"raised", "cancelled"} =>
                  auth'.access_token = auth'.existing
      ]_vars

\* an account that holds a token and a user id after an async_authenticate
\* with another token went through its four steps and raised
C39_Witness ==
    /\ auth.outcome = "raised"
    /\ Len(auth.steps) = 4
    /\ NonEmpty(auth.access_token)
    /\ auth.user_id # None
    /\ auth.provided # auth.access_token

\* the step taken is a call of async_refresh_devices
RefreshStep == last'.op = "async_refresh_devices"

\* parse_device_id returns the identifier of the entry
Parseable(entry) == parse_device_id(id_payload(entry)).raised = ""

\* the identifier of an entry that has one
EntryId(entry) == Val(parse_device_id(id_payload(entry)).ret)

\* the positions of the entries of a listing that name the device id
EntriesOf(listing, id) ==
    {i \in DOMAIN listing : Parseable(listing[i]) /\ EntryId(listing[i]) = id}

\* the ids the entries of a listing name
IdsOf(listing) ==
    {EntryId(listing[i]) : i \in {j \in DOMAIN listing : Parseable(listing[j])}}

\* C40: a device id that is in the registry stays in it with the same device
\* object, whatever happens; async_refresh_devices leaves the current state,
\* the stored UTC offset and the pending-command slot of the devices as they
\* were; and when it returns, the registry has gained exactly the ids its
\* entries name and every named device has the attributes of the last entry
\* that names it, the entries without a usable identifier counting for nothing.
C40_DeviceSessionsPersist ==
    [][/\ \A id \in DOMAIN devices :
              /\ id \in DOMAIN devices'
              /\ devices'[id].object = devices[id].object
       /\ RefreshStep =>
              /\ UNCHANGED <<current_state, utc_offset, control_future, fut, tasks,
                             peer_state, last_point, last_event>>
              /\ last'.raised = "" =>
                    LET listing == last'.args.listing
                    IN  /\ DOMAIN devices' = DOMAIN devices \cup IdsOf(listing)
                        /\ \A id \in IdsOf(listing) :
                              \E i \in EntriesOf(listing, id) :
                                 /\ \A j \in EntriesOf(listing, id) : j <= i
                                 /\ devices'[id].attributes = listing[i]
                        /\ \A id \in DOMAIN devices \ IdsOf(listing) :
                              devices'[id] = devices[id]
      ]_vars

\* a listing of an entry without a usable identifier and then the modelled
\* device was gone through, after an earlier one had added a device: the
\* device has the attributes of its entry, and still its state, its UTC offset
\* and its pending command
C40_Witness ==
    /\ last.op = "async_refresh_devices"
    /\ last.raised = ""
    /\ Len(last.args.listing) = 2
    /\ ~Parseable(last.args.listing[1])
    /\ EntriesOf(last.args.listing, device_id) = {2}
    /\ attributes = last.args.listing[2]
    /\ device_id + 2 \in DOMAIN devices
    /\ current_state # None
    /\ utc_offset # None
    /\ control_future # None

====
